---- MODULE Spec2Model ----
(***************************************************************************)
(* A model of backend/app/homomorphic_encryption.py: the Paillier          *)
(* cryptosystem (PaillierCrypto) and the privacy-preserving analytics      *)
(* built on it (PrivacyPreservingAnalytics).                               *)
(*                                                                         *)
(* Python integers are arbitrary precision; every value computed here      *)
(* stays below n^4 for the moduli used, far inside TLC's integers.         *)
(* Python's // and % on a positive divisor are floor division and the      *)
(* non-negative remainder, as \div and % are here.                         *)
(*                                                                         *)
(* A call that can raise returns a record [exc, val]: exc is "none" and    *)
(* val the returned value, or exc names the exception raised.              *)
(*                                                                         *)
(* The specifications share Init: Spec drives the cryptosystem engine,     *)
(* SpecAnalytics the encrypt / aggregate / decrypt-and-analyse pipeline,   *)
(* SpecReduction a chunked parallel reduction of the aggregation fold,     *)
(* SpecArith the modular arithmetic utilities, SpecExtract the feature     *)
(* scan of one event log, SpecOrchestrator the analyses of one             *)
(* PrivacyPreservingComputation session and SpecSessions two sessions      *)
(* side by side, SpecChain chains of engine operations on one ciphertext,  *)
(* SpecKeyUse the engine and the pipeline interleaved on one key,          *)
(* SpecComputations the computation requests of routers/computations.py    *)
(* over database.py's InMemoryDB, and SpecTasks the background tasks of    *)
(* routers/analytics.py.                                                   *)
(***************************************************************************)
EXTENDS Integers, Sequences, FiniteSets, TLC

VARIABLES
    crypto,               \* the session's PaillierCrypto instance (its fields)
    ciphertext,           \* engine: the ciphertext last returned, as [exc, val]
    history,              \* engine (ghost): the call that returned it and its arguments
    decrypted,            \* engine: what decrypt returned for ciphertext, as [exc, val]
    encrypted_user_data,  \* analytics: the list of the users' encrypted feature dicts
    features,             \* analytics (ghost): the plaintext counts each dict encrypts
    aggregated,           \* analytics: what aggregate_encrypted_data returned, as [exc, val]
    results,              \* analytics: what decrypt_and_analyze returned, as [exc, val]
    phase,                \* reduction: "idle", or "running" once the list is split
    chunks,               \* reduction: each worker's chunk, the indices of its users
    pos,                  \* reduction: how many users of its chunk each worker has folded
    partial,              \* reduction: each worker's local partial accumulator
    joined,               \* reduction: the workers whose partial has been merged
    accumulator,          \* reduction: the accumulator the partials are merged into
    arith,                \* arithmetic: the utility last called, its arguments and result
    scanned,              \* extraction: the events of the log scanned so far
    scan,                 \* extraction: the counters and the flag of the scan loop
    sessions,             \* orchestrator: each PrivacyPreservingComputation session
    chain,                \* engine: how many operations combined the ciphertext, and
                          \* (ghost) the values randint returned to the encrypt call
    db,                   \* API: the InMemoryDB instance of database.py
    response,             \* API: the HTTP response of the step just taken, if a request
    now,                  \* API: int(time.time()), the clock in whole seconds
    analysis_status,      \* API: routers/analytics.py's dict of task entries
    analysis_results,     \* API: routers/analytics.py's dict of analysis results
    background_tasks      \* API: the background task of each request, and where it is

engineVars == <<ciphertext, history, decrypted>>
analyticsVars == <<encrypted_user_data, features, aggregated, results>>
reductionVars == <<phase, chunks, pos, partial, joined, accumulator>>
extractVars == <<scanned, scan>>
apiVars == <<db, response, now, analysis_status, analysis_results, background_tasks>>
otherVars == <<arith, extractVars, sessions, chain, apiVars>>
vars == <<crypto, engineVars, analyticsVars, reductionVars, otherVars>>

(***************************************************************************)
(* Bounds of the model.                                                    *)
(***************************************************************************)
\* plaintexts handed to encrypt range over -MaxNeg .. n - 1 + MaxOver
MaxNeg == 2
MaxOver == 2
\* values random.randint(1, n - 1) returns: 1 .. min(n - 1, MaxRand)
MaxRand == 6
\* second operands and constants: within MaxOperand of 0, of n - 1 and of n
MaxOperand == 7

\* short event logs hold 0 .. MaxEvents events
MaxEvents == 2
\* users whose data one analysis aggregates
MaxUsers == 3
\* arguments handed to the arithmetic utilities: 0 .. MaxArith
MaxArith == 12
\* the event log the feature scan reads holds up to MaxScan events
MaxScan == 4
\* a dataset holds 0 .. MaxPopulation users
MaxPopulation == 2
\* the database holds up to MaxDatasets datasets and MaxRequests computation requests
\* (each request is processed any number of times)
MaxDatasets == 1
MaxRequests == 1
\* up to MaxTasks requests start a background task, within MaxClock seconds of the
\* server's start
MaxTasks == 2
MaxClock == 1
\* a ciphertext is combined up to MaxChain times in a row
MaxChain == 3
\* encrypt's loop ends within MaxDraws calls of random.randint
MaxDraws == 2

\* the primes key.p, key.q that RSA.generate may return: distinct, of equal bit length
PrimePairs == {<<5, 7>>, <<7, 5>>, <<11, 13>>}

Return(v) == [exc |-> "none", val |-> v]
Raise(e) == [exc |-> e, val |-> 0]
Unset == [exc |-> "unset", val |-> 0]
Returned(res) == res.exc = "none"

(***************************************************************************)
(* Modular arithmetic utilities.                                           *)
(***************************************************************************)
RECURSIVE gcd(_, _)
\* math.gcd
gcd(a, b) == IF b = 0 THEN (IF a < 0 THEN -a ELSE a) ELSE gcd(b, a % b)

\* _lcm returning the product, a common multiple that is not the least
_lcm_by_product(a, b) == a * b

\* _lcm returning its first argument, a multiple of p - 1 alone
_lcm_first_only(a, b) == a

\* PaillierCrypto._lcm
_lcm(a, b) == (a * b) \div gcd(a, b)

\* PaillierCrypto._L
_L(x, n) == (x - 1) \div n

RECURSIVE _extended_gcd_adding(_, _)
\* _extended_gcd adding the quotient term instead of subtracting it
_extended_gcd_adding(a, b) ==
    IF a = 0
    THEN <<b, 0, 1>>
    ELSE LET rec == _extended_gcd_adding(b % a, a)
         IN <<rec[1], rec[3] + (b \div a) * rec[2], rec[2]>>

RECURSIVE _extended_gcd(_, _)
\* PaillierCrypto._extended_gcd: <<gcd, x, y>>
_extended_gcd(a, b) ==
    IF a = 0
    THEN <<b, 0, 1>>
    ELSE LET rec == _extended_gcd(b % a, a)
         IN <<rec[1], rec[3] - (b \div a) * rec[2], rec[2]>>

\* _mod_inverse returning the Bezout coefficient without reducing it modulo m
_mod_inverse_unreduced(a, m) ==
    LET res == _extended_gcd(a, m)
    IN IF res[1] # 1 THEN Raise("Exception") ELSE Return(res[2])

\* PaillierCrypto._mod_inverse
_mod_inverse(a, m) ==
    LET res == _extended_gcd(a, m)
    IN IF res[1] # 1 THEN Raise("Exception") ELSE Return(res[2] % m)

RECURSIVE pow(_, _, _)
\* Python's three-argument pow: base^exp mod m; a negative exp raises the
\* inverse of base modulo m to -exp (the callers pass an invertible base)
pow(base, exp, mod) ==
    IF exp < 0
    THEN pow(_extended_gcd(base % mod, mod)[2] % mod, -exp, mod)
    ELSE IF exp = 0
    THEN 1 % mod
    ELSE LET half == pow(base, exp \div 2, mod)
             sq == (half * half) % mod
         IN IF exp % 2 = 1 THEN (sq * (base % mod)) % mod ELSE sq

(***************************************************************************)
(* Key generation: PaillierCrypto.__init__ on the primes p, q.             *)
(***************************************************************************)
PaillierCrypto(p, q) ==
    LET n == p * q
        n_squared == n * n
        g == n + 1
        lambda_val == _lcm(p - 1, q - 1)
        mu == _mod_inverse(_L(pow(g, lambda_val, n_squared), n), n)
    IN [p |-> p, q |-> q, n |-> n, n_squared |-> n_squared, g |-> g,
        lambda_val |-> lambda_val, mu |-> mu.val, exc |-> mu.exc]

(***************************************************************************)
(* The cryptosystem engine.  self is the PaillierCrypto instance.          *)
(***************************************************************************)
\* the values r that leave encrypt's redraw loop: a draw sharing a factor with n
\* is drawn again
AcceptedDraws(self) ==
    {r \in 1 .. (IF self.n - 1 < MaxRand THEN self.n - 1 ELSE MaxRand) : gcd(r, self.n) = 1}

\* encrypt leaving the factor r^n out
encrypt_unrandomized(self, plaintext, r) ==
    IF plaintext >= self.n
    THEN Raise("ValueError")
    ELSE Return(pow(self.g, plaintext, self.n_squared) % self.n_squared)

\* encrypt returning the product without reducing it modulo n^2
encrypt_unreduced(self, plaintext, r) ==
    IF plaintext >= self.n
    THEN Raise("ValueError")
    ELSE Return(pow(self.g, plaintext, self.n_squared) * pow(r, self.n, self.n_squared))

\* PaillierCrypto.encrypt, r being the draw that left the loop
encrypt(self, plaintext, r) ==
    IF plaintext >= self.n
    THEN Raise("ValueError")
    ELSE Return((pow(self.g, plaintext, self.n_squared) * pow(r, self.n, self.n_squared))
                    % self.n_squared)

\* decrypt with the factor mu left out
decrypt_without_mu(self, c) ==
    _L(pow(c, self.lambda_val, self.n_squared), self.n) % self.n

\* PaillierCrypto.decrypt
decrypt(self, c) ==
    LET x == pow(c, self.lambda_val, self.n_squared)
    IN (_L(x, self.n) * self.mu) % self.n

\* add_encrypted adding the ciphertexts instead of multiplying them
add_encrypted_by_sum(self, ciphertext1, ciphertext2) ==
    (ciphertext1 + ciphertext2) % self.n_squared

\* add_encrypted reducing its first operand modulo n before multiplying
add_encrypted_left_mod_n(self, ciphertext1, ciphertext2) ==
    ((ciphertext1 % self.n) * ciphertext2) % self.n_squared

\* PaillierCrypto.add_encrypted
add_encrypted(self, ciphertext1, ciphertext2) ==
    (ciphertext1 * ciphertext2) % self.n_squared

\* add_constant reducing g^constant modulo n instead of n^2
add_constant_mod_n(self, c, constant) ==
    (c * pow(self.g, constant, self.n)) % self.n_squared

\* PaillierCrypto.add_constant
add_constant(self, c, constant) ==
    (c * pow(self.g, constant, self.n_squared)) % self.n_squared

\* multiply_constant multiplying the ciphertext instead of raising it
multiply_constant_by_product(self, c, constant) ==
    (c * constant) % self.n_squared

\* PaillierCrypto.multiply_constant
multiply_constant(self, c, constant) ==
    pow(c, constant, self.n_squared)

(***************************************************************************)
(* Privacy-preserving analytics.  A site string is modelled as the         *)
(* sequence of its parts ("youtube.com/shorts" = <<"youtube.com",          *)
(* "/shorts">>); Python's `marker in site` is containment of the marker's  *)
(* parts as a contiguous run of the site's parts.                          *)
(***************************************************************************)
\* PrivacyPreservingAnalytics.__init__: self.site_categories
site_categories ==
    [short_video |->
        {<<"tiktok.com">>, <<"youtube.com", "/shorts">>, <<"instagram.com", "/reels">>,
         <<"snapchat.com">>, <<"vimeo.com", "/shorts">>, <<"triller.co">>, <<"byte.co">>,
         <<"dubsmash.com">>, <<"likee.com">>, <<"funimate.com">>},
     ecommerce |->
        {<<"amazon.com">>, <<"ebay.com">>, <<"walmart.com">>, <<"aliexpress.com">>,
         <<"etsy.com">>, <<"shopify.com">>, <<"bestbuy.com">>, <<"target.com">>,
         <<"newegg.com">>, <<"wayfair.com">>, <<"overstock.com">>, <<"homedepot.com">>}]

\* PrivacyPreservingAnalytics.__init__
PrivacyPreservingAnalytics(c) == [crypto |-> c, site_categories |-> site_categories]

\* Python's `marker in site` on strings
Contains(site, marker) ==
    \E k \in 0 .. (Len(site) - Len(marker)) : SubSeq(site, k + 1, k + Len(marker)) = marker

\* any(marker in site for marker in self.site_categories[category])
MatchesCategory(self, site, category) ==
    \E marker \in self.site_categories[category] : Contains(site, marker)

\* the loop body testing the e-commerce list only for an event that is no video
\* site (elif): an event on both lists is counted as a video visit alone
ScanEvent_elif(self, st, event) ==
    LET site == event.site
        is_video == MatchesCategory(self, site, "short_video")
        is_ecommerce == ~is_video /\ MatchesCategory(self, site, "ecommerce")
    IN [short_video_visits |-> st.short_video_visits + (IF is_video THEN 1 ELSE 0),
        ecommerce_visits |-> st.ecommerce_visits + (IF is_ecommerce THEN 1 ELSE 0),
        ecommerce_after_video |->
            st.ecommerce_after_video
                + (IF is_ecommerce /\ st.last_was_video THEN 1 ELSE 0),
        last_was_video |-> is_video]

\* the loop body without its last statement: the flag is never reset, it stays
\* set from the first video site on
ScanEvent_sticky_flag(self, st, event) ==
    LET site == event.site
        is_video == MatchesCategory(self, site, "short_video")
        is_ecommerce == MatchesCategory(self, site, "ecommerce")
        seen_video == is_video \/ st.last_was_video
    IN [short_video_visits |-> st.short_video_visits + (IF is_video THEN 1 ELSE 0),
        ecommerce_visits |-> st.ecommerce_visits + (IF is_ecommerce THEN 1 ELSE 0),
        ecommerce_after_video |->
            st.ecommerce_after_video + (IF is_ecommerce /\ seen_video THEN 1 ELSE 0),
        last_was_video |-> seen_video]

\* one pass of encrypt_user_data's loop body over event, from the counters st
ScanEvent(self, st, event) ==
    LET site == event.site
        is_video == MatchesCategory(self, site, "short_video")
        is_ecommerce == MatchesCategory(self, site, "ecommerce")
        \* last_was_video as the e-commerce test reads it: already set by this event
        seen_video == is_video \/ st.last_was_video
    IN [short_video_visits |-> st.short_video_visits + (IF is_video THEN 1 ELSE 0),
        ecommerce_visits |-> st.ecommerce_visits + (IF is_ecommerce THEN 1 ELSE 0),
        ecommerce_after_video |->
            st.ecommerce_after_video + (IF is_ecommerce /\ seen_video THEN 1 ELSE 0),
        last_was_video |-> is_video]

RECURSIVE ScanFrom(_, _, _, _, _)
\* the passes of encrypt_user_data's loop over the events lo .. hi of user_data, from
\* the counters st: the first half of the events, then the second from where the
\* first half ended
ScanFrom(self, st, user_data, lo, hi) ==
    IF lo > hi THEN st
    ELSE IF lo = hi THEN ScanEvent(self, st, user_data[lo])
    ELSE LET half == ScanFrom(self, st, user_data, lo, (lo + hi) \div 2)
         IN CASE half.last_was_video \in BOOLEAN ->
                    ScanFrom(self, half, user_data, ((lo + hi) \div 2) + 1, hi)

\* the loop of encrypt_user_data after the first i events of user_data
ScanEvents(self, user_data, i) ==
    ScanFrom(self, [short_video_visits |-> 0, ecommerce_visits |-> 0,
                    ecommerce_after_video |-> 0, last_was_video |-> FALSE],
             user_data, 1, i)

\* the counts encrypt_user_data computes before it encrypts them
ExtractFeatures(self, user_data) ==
    LET st == ScanEvents(self, user_data, Len(user_data))
    IN [total_visits |-> Len(user_data),
        short_video_visits |-> st.short_video_visits,
        ecommerce_visits |-> st.ecommerce_visits,
        ecommerce_after_video |-> st.ecommerce_after_video]

\* PrivacyPreservingAnalytics.encrypt_user_data; rs are the accepted draws of its
\* four encrypt calls, in call order
encrypt_user_data(self, user_data, rs) ==
    LET total_visits == Len(user_data)
        st == ScanEvents(self, user_data, Len(user_data))
        encrypted_total == encrypt(self.crypto, total_visits, rs[1])
        encrypted_video == encrypt(self.crypto, st.short_video_visits, rs[2])
        encrypted_ecommerce == encrypt(self.crypto, st.ecommerce_visits, rs[3])
        encrypted_ecommerce_after_video == encrypt(self.crypto, st.ecommerce_after_video, rs[4])
    IN IF ~Returned(encrypted_total) THEN encrypted_total
       ELSE IF ~Returned(encrypted_video) THEN encrypted_video
       ELSE IF ~Returned(encrypted_ecommerce) THEN encrypted_ecommerce
       ELSE IF ~Returned(encrypted_ecommerce_after_video) THEN encrypted_ecommerce_after_video
       ELSE Return([encrypted_total_visits |-> encrypted_total.val,
                    encrypted_short_video_visits |-> encrypted_video.val,
                    encrypted_ecommerce_visits |-> encrypted_ecommerce.val,
                    encrypted_ecommerce_after_video |-> encrypted_ecommerce_after_video.val])

\* the empty dict {}
EmptyDict == [key \in {} |-> 0]

\* one pass of aggregate_encrypted_data's loop body
AggregateStep(self, agg, user_data) ==
    [encrypted_total_visits |->
        add_encrypted(self.crypto, agg.encrypted_total_visits,
                      user_data.encrypted_total_visits),
     encrypted_short_video_visits |->
        add_encrypted(self.crypto, agg.encrypted_short_video_visits,
                      user_data.encrypted_short_video_visits),
     encrypted_ecommerce_visits |->
        add_encrypted(self.crypto, agg.encrypted_ecommerce_visits,
                      user_data.encrypted_ecommerce_visits),
     encrypted_ecommerce_after_video |->
        add_encrypted(self.crypto, agg.encrypted_ecommerce_after_video,
                      user_data.encrypted_ecommerce_after_video)]

RECURSIVE AggregateLoop(_, _, _)
\* the accumulator after the users 1 .. i of a non-empty list: it starts as a copy of
\* the first user's four ciphertexts
AggregateLoop(self, list, i) ==
    IF i = 1
    THEN [encrypted_total_visits |-> list[1].encrypted_total_visits,
          encrypted_short_video_visits |-> list[1].encrypted_short_video_visits,
          encrypted_ecommerce_visits |-> list[1].encrypted_ecommerce_visits,
          encrypted_ecommerce_after_video |-> list[1].encrypted_ecommerce_after_video]
    ELSE AggregateStep(self, AggregateLoop(self, list, i - 1), list[i])

\* aggregate_encrypted_data leaving out the last user of the list
aggregate_dropping_last(self, list) ==
    IF list = <<>> THEN EmptyDict
    ELSE AggregateLoop(self, list, IF Len(list) > 1 THEN Len(list) - 1 ELSE 1)

\* aggregate_encrypted_data folding the e-commerce lane from the video lane's data
aggregate_crossing_lanes(self, list) ==
    IF list = <<>> THEN EmptyDict
    ELSE LET agg == AggregateLoop(self, list, Len(list))
         IN [agg EXCEPT !.encrypted_ecommerce_visits = agg.encrypted_short_video_visits]

\* aggregate_encrypted_data starting from a ciphertext of zero, the empty list included
aggregate_from_zero(self, list) ==
    LET one == [encrypted_total_visits |-> 1, encrypted_short_video_visits |-> 1,
                encrypted_ecommerce_visits |-> 1, encrypted_ecommerce_after_video |-> 1]
    IN IF list = <<>> THEN one ELSE AggregateLoop(self, list, Len(list))

\* PrivacyPreservingAnalytics.aggregate_encrypted_data
aggregate_encrypted_data(self, list) ==
    IF list = <<>> THEN EmptyDict ELSE AggregateLoop(self, list, Len(list))

\* the bits of a float's significand (IEEE 754 binary64, Python's float)
Precision == 53

\* a float x >= 0 is [exp, bits]: bits holds the Precision bits of its significand,
\* the first one 1, and x = 1.b2 ... b53 (binary) * 2^exp; the first bit of 0.0 is 0
RECURSIVE Zeros(_)
\* k bits 0
Zeros(k) == IF k = 0 THEN <<>> ELSE <<0>> \o Zeros(k - 1)

\* the float 0.0
FloatZero == [exp |-> 0, bits |-> Zeros(Precision)]

RECURSIVE Exponent(_, _)
\* the e with 2^e <= a / b < 2^(e + 1), for a, b > 0
Exponent(a, b) ==
    IF a >= 2 * b THEN Exponent(a, 2 * b) + 1
    ELSE IF a < b THEN Exponent(2 * a, b) - 1
    ELSE 0

\* h * h modulo b
SquareMod(h, b) == (h * h) % b

RECURSIVE TwoToThe(_, _)
\* 2^k modulo b
TwoToThe(k, b) ==
    IF k = 0 THEN 1 % b
    ELSE (SquareMod(TwoToThe(k \div 2, b), b) * (IF k % 2 = 1 THEN 2 ELSE 1)) % b

\* the remainder a long division by b comes to, k bits after the remainder r < b
RemainderAfter(r, b, k) == (r * TwoToThe(k, b)) % b

\* the next k bits of a long division by b that has come to the remainder r < b
QuotientBits(r, b, k) ==
    [i \in 1 .. k |-> IF 2 * RemainderAfter(r, b, i - 1) >= b THEN 1 ELSE 0]

\* bits with 1 added at its last place, the carry running to the left; not every bit
\* is 1
Increment(bits) ==
    [i \in DOMAIN bits |->
        IF \A j \in (i + 1) .. Len(bits) : bits[j] = 1 THEN 1 - bits[i] ELSE bits[i]]

\* round to nearest, ties to even: the significand bits with exponent exp, cut after
\* Precision bits, the first bit cut off being guard and sticky telling whether any
\* later one is 1
RoundHalfEven(exp, bits, guard, sticky) ==
    IF guard = 0 \/ (~sticky /\ bits[Precision] = 0) THEN [exp |-> exp, bits |-> bits]
    ELSE IF \A i \in 1 .. Precision : bits[i] = 1
    THEN [exp |-> exp + 1, bits |-> <<1>> \o Zeros(Precision - 1)]
    ELSE [exp |-> exp, bits |-> Increment(bits)]

\* the float nearest to num / den, for 1 <= num / den < 2, with exponent exp
RoundedQuotient(exp, num, den) ==
    RoundHalfEven(exp, <<1>> \o QuotientBits(num - den, den, Precision - 1),
                  IF 2 * RemainderAfter(num - den, den, Precision - 1) >= den THEN 1 ELSE 0,
                  (2 * RemainderAfter(num - den, den, Precision - 1)) % den # 0)

\* Python's a / b on integers a >= 0, b > 0: the float nearest to the quotient
true_divide(a, b) ==
    IF a = 0 THEN FloatZero
    ELSE IF Exponent(a, b) >= 0
    THEN RoundedQuotient(Exponent(a, b), a, b * 2 ^ Exponent(a, b))
    ELSE RoundedQuotient(Exponent(a, b), a * 2 ^ (0 - Exponent(a, b)), b)

RECURSIVE IntegerOf(_, _, _)
\* the integer whose bits are bits[i .. j], the highest first
IntegerOf(bits, i, j) == IF j < i THEN 0 ELSE 2 * IntegerOf(bits, i, j - 1) + bits[j]

\* the last w bits of the integer c >= 0, the highest first
BitsOf(c, w) == [i \in 1 .. w |-> (c \div 2 ^ (w - i)) % 2]

RECURSIVE Binary(_)
\* the bits of the integer c >= 0, the highest first
Binary(c) == IF c = 0 THEN <<>> ELSE Binary(c \div 2) \o <<c % 2>>

RECURSIVE ProductBits(_, _, _, _)
\* the bits of the integer product of bits[1 .. i] and k, plus carry, multiplied
\* eight bits at a time from the right
ProductBits(bits, i, k, carry) ==
    IF i = 0 THEN Binary(carry)
    ELSE IF i < 8 THEN Binary(IntegerOf(bits, 1, i) * k + carry)
    ELSE ProductBits(bits, i - 8, k, (IntegerOf(bits, i - 7, i) * k + carry) \div 256)
             \o BitsOf((IntegerOf(bits, i - 7, i) * k + carry) % 256, 8)

\* the product's bits, of which the first Precision are kept and the rest rounded
RoundedProduct(exp, product) ==
    RoundHalfEven(exp + Len(product) - Precision, SubSeq(product, 1, Precision),
                  IF Len(product) > Precision THEN product[Precision + 1] ELSE 0,
                  \E i \in (Precision + 2) .. Len(product) : product[i] = 1)

\* Python's x * k on a float x >= 0 and an integer k >= 1: the float nearest to the
\* product
float_times(x, k) ==
    IF x.bits[1] = 0 THEN FloatZero
    ELSE RoundedProduct(x.exp, ProductBits(x.bits, Precision, k, 0))

\* Python's a / b * 100 on integers a >= 0 and b: the quotient is rounded to a float,
\* then the product; or ZeroDivisionError
Percentage(a, b) ==
    IF b = 0 THEN Raise("ZeroDivisionError") ELSE Return(float_times(true_divide(a, b), 100))

\* the integer 0 of the conditional expressions, as the float 0.0 it compares equal to
Zero == FloatZero

\* the first four statements of decrypt_and_analyze: the four lanes decrypted;
\* indexing a dict by a key it lacks raises KeyError
DecryptLanes(self, aggregated_data) ==
    IF {"encrypted_total_visits", "encrypted_short_video_visits",
        "encrypted_ecommerce_visits", "encrypted_ecommerce_after_video"}
           \subseteq DOMAIN aggregated_data
    THEN Return([total_visits |->
                     decrypt(self.crypto, aggregated_data.encrypted_total_visits),
                 short_video_visits |->
                     decrypt(self.crypto, aggregated_data.encrypted_short_video_visits),
                 ecommerce_visits |->
                     decrypt(self.crypto, aggregated_data.encrypted_ecommerce_visits),
                 ecommerce_after_video |->
                     decrypt(self.crypto, aggregated_data.encrypted_ecommerce_after_video)])
    ELSE Raise("KeyError")

\* the rest of decrypt_and_analyze: the report built from the decrypted counts d;
\* guard1 and guard2 are the conditions of its two conditional expressions
Report(d, guard1, guard2) ==
    LET short_video_percentage ==
            IF guard1 THEN Percentage(d.short_video_visits, d.total_visits)
            ELSE Return(Zero)
        ecommerce_after_video_percentage ==
            IF guard2 THEN Percentage(d.ecommerce_after_video, d.short_video_visits)
            ELSE Return(Zero)
    IN IF ~Returned(short_video_percentage) THEN short_video_percentage
       ELSE IF ~Returned(ecommerce_after_video_percentage)
       THEN ecommerce_after_video_percentage
       ELSE Return([total_visits |-> d.total_visits,
                    short_video_visits |-> d.short_video_visits,
                    ecommerce_visits |-> d.ecommerce_visits,
                    ecommerce_after_video |-> d.ecommerce_after_video,
                    short_video_percentage |-> short_video_percentage.val,
                    ecommerce_after_video_percentage |-> ecommerce_after_video_percentage.val])

\* decrypt_and_analyze testing its denominators with >= 0 instead of > 0
decrypt_and_analyze_unguarded(self, aggregated_data) ==
    LET d == DecryptLanes(self, aggregated_data)
    IN IF ~Returned(d) THEN d
       ELSE Report(d.val, d.val.total_visits >= 0, d.val.short_video_visits >= 0)

\* PrivacyPreservingAnalytics.decrypt_and_analyze
decrypt_and_analyze(self, aggregated_data) ==
    LET d == DecryptLanes(self, aggregated_data)
    IN IF ~Returned(d) THEN d
       ELSE Report(d.val, d.val.total_visits > 0, d.val.short_video_visits > 0)

(***************************************************************************)
(* Inputs of the engine's operations.                                      *)
(***************************************************************************)
Plaintexts(self) == (0 - MaxNeg) .. (self.n - 1 + MaxOver)
Operands(self) == (0 .. MaxOperand) \cup ((self.n - 1 - MaxOperand) .. (self.n - 1))
Constants(self) == Operands(self) \cup (self.n .. (self.n + MaxOperand))

Keys == {PaillierCrypto(pq[1], pq[2]) : pq \in PrimePairs}

(***************************************************************************)
(* The engine as a state machine: a key is generated, one plaintext is     *)
(* encrypted, the ciphertext is optionally combined once, then decrypted.  *)
(***************************************************************************)
EngineIdle ==
    /\ ciphertext = Unset
    /\ history = [op |-> "none", a |-> 0, b |-> 0]
    /\ decrypted = Unset

AnalyticsIdle ==
    /\ encrypted_user_data = <<>>
    /\ features = <<>>
    /\ aggregated = Unset
    /\ results = Unset

\* the workers of a parallel reduction
Workers == {"w1", "w2"}

ReductionIdle ==
    /\ phase = "idle"
    /\ chunks = [w \in Workers |-> <<>>]
    /\ pos = [w \in Workers |-> 0]
    /\ partial = [w \in Workers |-> EmptyDict]
    /\ joined = {}
    /\ accumulator = EmptyDict

\* no utility has been called
ArithIdle == arith = [fn |-> "none"]

\* encrypt_user_data's counters and flag before the first event
ExtractIdle ==
    /\ scanned = <<>>
    /\ scan = ScanEvents(PrivacyPreservingAnalytics(crypto), <<>>, 0)

\* the sessions that may be opened
SessionIds == {"s1", "s2"}

\* a session that has not been constructed
NoSession == [created |-> FALSE]

SessionsIdle == sessions = [s \in SessionIds |-> NoSession]

\* no ciphertext has been combined, encrypt has drawn nothing
ChainIdle == chain = [depth |-> 0, draws |-> <<>>]

\* database.py's db = InMemoryDB() as constructed, without the users
InMemoryDB == [datasets |-> <<>>, computation_requests |-> <<>>, computation_results |-> <<>>]

\* no request has been handled yet
NoResponse == [op |-> "none", user |-> "none", id |-> 0, code |-> 0, body |-> EmptyDict]

\* the server has started: the database and the task dicts are empty
ApiIdle ==
    /\ db = InMemoryDB
    /\ response = NoResponse
    /\ now = 0
    /\ analysis_status = EmptyDict
    /\ analysis_results = EmptyDict
    /\ background_tasks = <<>>

Init ==
    /\ crypto \in Keys
    /\ EngineIdle
    /\ AnalyticsIdle
    /\ ReductionIdle
    /\ ArithIdle
    /\ ExtractIdle
    /\ SessionsIdle
    /\ ChainIdle
    /\ ApiIdle

Encrypt(m, r) ==
    /\ history.op = "none"
    /\ ciphertext' = encrypt(crypto, m, r)
    /\ history' = [op |-> "encrypt", a |-> m, b |-> r]
    /\ UNCHANGED <<crypto, otherVars, decrypted, analyticsVars, reductionVars>>

AddEncrypted(b, rb) ==
    /\ history.op = "encrypt"
    /\ Returned(ciphertext)
    /\ ciphertext' = Return(add_encrypted(crypto, ciphertext.val, encrypt(crypto, b, rb).val))
    /\ history' = [op |-> "add_encrypted", a |-> history.a, b |-> b]
    /\ decrypted' = Unset
    /\ UNCHANGED <<crypto, otherVars, analyticsVars, reductionVars>>

AddConstant(k) ==
    /\ history.op = "encrypt"
    /\ Returned(ciphertext)
    /\ ciphertext' = Return(add_constant(crypto, ciphertext.val, k))
    /\ history' = [op |-> "add_constant", a |-> history.a, b |-> k]
    /\ decrypted' = Unset
    /\ UNCHANGED <<crypto, otherVars, analyticsVars, reductionVars>>

MultiplyConstant(k) ==
    /\ history.op = "encrypt"
    /\ Returned(ciphertext)
    /\ ciphertext' = Return(multiply_constant(crypto, ciphertext.val, k))
    /\ history' = [op |-> "multiply_constant", a |-> history.a, b |-> k]
    /\ decrypted' = Unset
    /\ UNCHANGED <<crypto, otherVars, analyticsVars, reductionVars>>

Decrypt ==
    /\ Returned(ciphertext)
    /\ decrypted = Unset
    /\ decrypted' = Return(decrypt(crypto, ciphertext.val))
    /\ UNCHANGED <<crypto, otherVars, ciphertext, history, analyticsVars, reductionVars>>

Next ==
    \/ \E m \in Plaintexts(crypto), r \in AcceptedDraws(crypto) : Encrypt(m, r)
    \/ \E b \in Operands(crypto), rb \in AcceptedDraws(crypto) : AddEncrypted(b, rb)
    \/ \E k \in Constants(crypto) : AddConstant(k)
    \/ \E k \in Constants(crypto) : MultiplyConstant(k)
    \/ Decrypt

Spec == Init /\ [][Next]_vars

ValidPlaintext(m) == 0 <= m /\ m < crypto.n

\* C1: decrypting a fresh encryption of a valid plaintext m returns m, for every
\* key and every accepted randomization factor; encrypt does not fail on such m
RoundTrip ==
    (history.op = "encrypt" /\ ValidPlaintext(history.a))
        => /\ Returned(ciphertext)
           /\ Returned(decrypted) => decrypted.val = history.a

RoundTripWitness ==
    /\ history.op = "encrypt"
    /\ history.a = crypto.n - 1
    /\ history.b > 1
    /\ Returned(decrypted)
    /\ decrypted.val = crypto.n - 1

\* C2: decrypting add_encrypted of fresh encryptions of valid plaintexts a and b
\* returns (a + b) mod n, also when a + b >= n
HomomorphicAddition ==
    (history.op = "add_encrypted" /\ ValidPlaintext(history.a) /\ ValidPlaintext(history.b)
        /\ Returned(decrypted))
        => decrypted.val = (history.a + history.b) % crypto.n

\* a sum that wraps: a + b >= n
HomomorphicAdditionWitness ==
    /\ history.op = "add_encrypted"
    /\ ValidPlaintext(history.a) /\ ValidPlaintext(history.b)
    /\ history.a + history.b > crypto.n
    /\ Returned(decrypted)
    /\ decrypted.val = history.a + history.b - crypto.n

\* C3: decrypting add_constant of a fresh encryption of a valid plaintext a with
\* a constant k >= 0 returns (a + k) mod n, also when k >= n
AddConstantCorrect ==
    (history.op = "add_constant" /\ ValidPlaintext(history.a) /\ history.b >= 0
        /\ Returned(decrypted))
        => decrypted.val = (history.a + history.b) % crypto.n

\* a constant above n
AddConstantWitness ==
    /\ history.op = "add_constant"
    /\ ValidPlaintext(history.a) /\ history.a > 0
    /\ history.b > crypto.n
    /\ Returned(decrypted)
    /\ decrypted.val = (history.a + history.b) % crypto.n

\* C4: decrypting multiply_constant of a fresh encryption of a valid plaintext a
\* with a constant k >= 0 returns (a * k) mod n, also when k = 0
MultiplyConstantCorrect ==
    (history.op = "multiply_constant" /\ ValidPlaintext(history.a) /\ history.b >= 0
        /\ Returned(decrypted))
        => decrypted.val = (history.a * history.b) % crypto.n

\* 6 times 3 gives 18
MultiplyConstantWitness ==
    /\ history.op = "multiply_constant"
    /\ history.a = 6 /\ history.b = 3
    /\ Returned(decrypted)
    /\ decrypted.val = 18

\* C8: encrypt returns a ciphertext exactly for the plaintexts 0 <= m < n and
\* raises for every other m, below 0 as well as from n on
EncryptRejectsOutOfRange ==
    history.op = "encrypt" => (Returned(ciphertext) <=> ValidPlaintext(history.a))

(***************************************************************************)
(* The analytics as a state machine: users' logs are encrypted one by one  *)
(* into encrypted_user_data, the list is aggregated, the aggregate is      *)
(* decrypted and analysed.                                                 *)
(***************************************************************************)
Analytics == PrivacyPreservingAnalytics(crypto)

\* the browsing pattern the users' event logs are cut from: a video site, a shop,
\* neither, a shop, a site matching both lists, a video site
BrowsePattern ==
    <<[site |-> <<"tiktok.com", "/video">>],
      [site |-> <<"amazon.com", "/cart">>],
      [site |-> <<"youtube.com", "/watch">>],
      [site |-> <<"shop.", "ebay.com">>],
      [site |-> <<"youtube.com", "/shorts", "amazon.com">>],
      [site |-> <<"www.", "tiktok.com">>]>>

\* the log of len events that starts at place start of the pattern
Browse(start, len) ==
    [i \in 1 .. len |-> BrowsePattern[((start + i - 2) % Len(BrowsePattern)) + 1]]

\* lengths of the long logs: their sums reach and pass n = 35
LongLens == {10, 15, 20}

\* the users' logs: the short ones from the pattern's first two places, the long ones
UserLogs ==
    {Browse(start, len) : start \in {1, 2}, len \in 0 .. MaxEvents}
        \cup {Browse(1, len) : len \in LongLens}

\* the accepted draws in increasing order
DrawStream(self) ==
    LET S == AcceptedDraws(self)
    IN [i \in 1 .. Cardinality(S) |-> CHOOSE r \in S : Cardinality({x \in S : x < r}) = i - 1]

\* the draws of the four encrypt calls made for the user-th user: the stream of
\* accepted draws is read on, cyclically
Tape(self, user) ==
    LET stream == DrawStream(self)
    IN [j \in 1 .. 4 |-> stream[((4 * (user - 1) + j - 1) % Len(stream)) + 1]]

EncryptUserData(user_data) ==
    /\ Len(encrypted_user_data) < MaxUsers
    /\ aggregated.exc = "unset"
    /\ phase = "idle"
    /\ LET res == encrypt_user_data(Analytics, user_data,
                                    Tape(crypto, Len(encrypted_user_data) + 1))
       IN /\ Returned(res)
          /\ encrypted_user_data' = Append(encrypted_user_data, res.val)
    /\ features' = Append(features, ExtractFeatures(Analytics, user_data))
    /\ UNCHANGED <<crypto, otherVars, engineVars, aggregated, results, reductionVars>>

Aggregate ==
    /\ aggregated.exc = "unset"
    /\ aggregated' = Return(aggregate_encrypted_data(Analytics, encrypted_user_data))
    /\ UNCHANGED <<crypto, otherVars, engineVars, encrypted_user_data, features, results, reductionVars>>

DecryptAndAnalyze ==
    /\ Returned(aggregated)
    /\ results.exc = "unset"
    /\ results' = decrypt_and_analyze(Analytics, aggregated.val)
    /\ UNCHANGED <<crypto, otherVars, engineVars, encrypted_user_data, features, aggregated,
                   reductionVars>>

NextAnalytics ==
    \/ \E user_data \in UserLogs : EncryptUserData(user_data)
    \/ Aggregate
    \/ DecryptAndAnalyze

SpecAnalytics == Init /\ [][NextAnalytics]_vars

RECURSIVE SumLane(_, _, _)
\* the sum of one count over the first i users' plaintext feature vectors
SumLane(fs, lane, i) == IF i = 0 THEN 0 ELSE SumLane(fs, lane, i - 1) + fs[i][lane]

CountLanes ==
    {"total_visits", "short_video_visits", "ecommerce_visits", "ecommerce_after_video"}

\* C5: for a non-empty list of users, decrypt_and_analyze of the aggregate returns a
\* report whose four counts are, lane by lane, the sum modulo n of the users'
\* plaintext counts of that lane (the sum itself when it is below n)
LaneWiseAggregate ==
    (encrypted_user_data # <<>> /\ results.exc # "unset")
        => /\ Returned(results)
           /\ \A lane \in CountLanes :
                LET sum == SumLane(features, lane, Len(features))
                IN /\ results.val[lane] = sum % crypto.n
                   /\ sum < crypto.n => results.val[lane] = sum

\* total_visits 10, 20 and 15 give 45
LaneWiseAggregateWitness ==
    /\ Len(features) = 3
    /\ features[1].total_visits = 10
    /\ features[2].total_visits = 20
    /\ features[3].total_visits = 15
    /\ Returned(results)
    /\ results.val.total_visits = 45
    /\ results.val.ecommerce_visits # results.val.short_video_visits

Permuted(list, perm) == [i \in 1 .. Len(list) |-> list[perm[i]]]

\* C6: aggregating any permutation of the list yields the same four accumulator
\* ciphertexts, hence the same decrypted sums
FoldOrderIndependence ==
    Returned(aggregated)
        => \A perm \in Permutations(1 .. Len(encrypted_user_data)) :
             LET other == aggregate_encrypted_data(Analytics,
                                                   Permuted(encrypted_user_data, perm))
             IN /\ other = aggregated.val
                /\ DecryptLanes(Analytics, other) = DecryptLanes(Analytics, aggregated.val)

\* three users with pairwise different ciphertexts, aggregated
FoldOrderIndependenceWitness ==
    /\ Len(encrypted_user_data) = 3
    /\ encrypted_user_data[1] # encrypted_user_data[2]
    /\ encrypted_user_data[2] # encrypted_user_data[3]
    /\ encrypted_user_data[1] # encrypted_user_data[3]
    /\ features[1] # features[2]
    /\ features[2] # features[3]
    /\ features[1] # features[3]
    /\ Returned(aggregated)

\* C9: aggregating the empty list returns the empty dict, with no ciphertext in it,
\* and decrypt_and_analyze of that dict raises instead of returning a report
EmptyAggregate ==
    (encrypted_user_data = <<>> /\ aggregated.exc # "unset")
        => /\ Returned(aggregated)
           /\ DOMAIN aggregated.val = {}
           /\ results.exc # "unset" => ~Returned(results)

EmptyAggregateWitness ==
    /\ encrypted_user_data = <<>>
    /\ Returned(aggregated)
    /\ results.exc = "KeyError"

\* C10: decrypt_and_analyze never raises ZeroDivisionError; on a non-empty aggregate
\* it returns a report, whose category-A percentage is 0 when the decrypted total is 0
\* and whose transition percentage is 0 when the decrypted category-A count is 0
ZeroGuard ==
    /\ results.exc # "ZeroDivisionError"
    /\ (encrypted_user_data # <<>> /\ results.exc # "unset")
        => /\ Returned(results)
           /\ results.val.total_visits = 0 => results.val.short_video_percentage = Zero
           /\ results.val.short_video_visits = 0
                => results.val.ecommerce_after_video_percentage = Zero

\* both denominators are 0: the users' logs are empty
ZeroGuardWitness ==
    /\ Len(encrypted_user_data) = MaxUsers
    /\ Returned(results)
    /\ results.val.total_visits = 0
    /\ results.val.short_video_visits = 0
    /\ results.val.short_video_percentage = Zero
    /\ results.val.ecommerce_after_video_percentage = Zero

(***************************************************************************)
(* Parallel reduction of the fold (the specification's section 5; the      *)
(* source has the sequential fold only).  The list is split into one chunk *)
(* per worker; a worker folds its chunk into a local partial accumulator   *)
(* as aggregate_encrypted_data folds the whole list; each partial is       *)
(* merged into the accumulator once, lane by lane with add_encrypted.      *)
(***************************************************************************)
\* the users a parallel reduction is run on: the short logs
ShortLogs == {Browse(1, len) : len \in 0 .. MaxEvents}

RECURSIVE IndicesOf(_, _, _)
\* the indices i <= k with assign[i] = w, in increasing order
IndicesOf(assign, w, k) ==
    IF k = 0 THEN <<>>
    ELSE IF assign[k] = w THEN Append(IndicesOf(assign, w, k - 1), k)
    ELSE IndicesOf(assign, w, k - 1)

\* merging src into the accumulator acc: acc is src when nothing was merged yet
Merge(self, acc, src) ==
    IF DOMAIN acc = {} THEN src ELSE AggregateStep(self, acc, src)

Split(assign) ==
    /\ phase = "idle"
    /\ encrypted_user_data # <<>>
    /\ phase' = "running"
    /\ chunks' = [w \in Workers |-> IndicesOf(assign, w, Len(encrypted_user_data))]
    /\ UNCHANGED <<crypto, otherVars, engineVars, analyticsVars, pos, partial, joined, accumulator>>

WorkerStep(w) ==
    /\ phase = "running"
    /\ pos[w] < Len(chunks[w])
    /\ partial' = [partial EXCEPT
                     ![w] = Merge(Analytics, @, encrypted_user_data[chunks[w][pos[w] + 1]])]
    /\ pos' = [pos EXCEPT ![w] = @ + 1]
    /\ UNCHANGED <<crypto, otherVars, engineVars, analyticsVars, phase, chunks, joined, accumulator>>

Join(w) ==
    /\ phase = "running"
    /\ chunks[w] # <<>>
    /\ pos[w] = Len(chunks[w])
    /\ w \notin joined
    /\ accumulator' = Merge(Analytics, accumulator, partial[w])
    /\ joined' = joined \cup {w}
    /\ UNCHANGED <<crypto, otherVars, engineVars, analyticsVars, phase, chunks, pos, partial>>

NextReduction ==
    \/ \E user_data \in ShortLogs : EncryptUserData(user_data)
    \/ \E assign \in [1 .. Len(encrypted_user_data) -> Workers] : Split(assign)
    \/ \E w \in Workers : WorkerStep(w)
    \/ \E w \in Workers : Join(w)

SpecReduction == Init /\ [][NextReduction]_vars

\* every worker that has a chunk has merged its partial
Finished == phase = "running" /\ \A w \in Workers : chunks[w] = <<>> \/ w \in joined

RECURSIVE ChunkSum(_, _, _)
\* the sum of one count over the first i users of a chunk
ChunkSum(chunk, lane, i) ==
    IF i = 0 THEN 0 ELSE ChunkSum(chunk, lane, i - 1) + features[chunk[i]][lane]

\* the reduction's result equals the sequential fold's
SameAsSequential ==
    accumulator = aggregate_encrypted_data(Analytics, encrypted_user_data)

\* the decrypted sums when worker w's partial is merged a second time
MergedTwice(w) == DecryptLanes(Analytics, Merge(Analytics, accumulator, partial[w])).val

\* the decrypted sums when worker w's partial is dropped: the other workers' partials
\* alone (there are two workers)
Dropped(w) ==
    LET other == CHOOSE v \in Workers : v # w
    IN DecryptLanes(Analytics, partial[other]).val

Merged == DecryptLanes(Analytics, accumulator).val

\* the statement of C7 as made: the reduction's accumulator is the sequential fold's,
\* and merging a partial twice or dropping one changes the decrypted sums
ParallelReductionAsClaimed ==
    Finished
        => /\ SameAsSequential
           /\ \A w \in joined :
                /\ MergedTwice(w) # Merged
                /\ joined = Workers => Dropped(w) # Merged

\* C7 (amended): under every interleaving of the workers the reduction's accumulator
\* is the sequential fold's; merging a partial twice or dropping one changes the
\* decrypted sum of exactly the lanes in which that partial's plaintext sum is not
\* 0 modulo n
ParallelReduction ==
    Finished
        => /\ SameAsSequential
           /\ \A w \in joined : \A lane \in CountLanes :
                LET changes == ChunkSum(chunks[w], lane, Len(chunks[w])) % crypto.n # 0
                IN /\ (MergedTwice(w)[lane] # Merged[lane]) <=> changes
                   /\ joined = Workers => ((Dropped(w)[lane] # Merged[lane]) <=> changes)

\* two workers, one with a chunk of two users, both partials merged
ParallelReductionWitness ==
    /\ Finished
    /\ joined = Workers
    /\ \E w \in Workers : Len(chunks[w]) = 2
    /\ \E w \in Workers : ChunkSum(chunks[w], "total_visits", Len(chunks[w])) > 0
    /\ accumulator = aggregate_encrypted_data(Analytics, encrypted_user_data)

(***************************************************************************)
(* The arithmetic utilities as a state machine: one call of _extended_gcd  *)
(* or of _mod_inverse on small arguments; the key is the one __init__      *)
(* generated.                                                              *)
(***************************************************************************)
ExtendedGcd(a, b) ==
    /\ arith.fn = "none"
    /\ arith' = [fn |-> "_extended_gcd", a |-> a, b |-> b, ret |-> _extended_gcd(a, b)]
    /\ UNCHANGED <<crypto, engineVars, analyticsVars, reductionVars, extractVars, sessions, chain, apiVars>>

ModInverse(a, m) ==
    /\ arith.fn = "none"
    /\ arith' = [fn |-> "_mod_inverse", a |-> a, b |-> m, ret |-> _mod_inverse(a, m)]
    /\ UNCHANGED <<crypto, engineVars, analyticsVars, reductionVars, extractVars, sessions, chain, apiVars>>

NextArith ==
    \/ \E a \in 0 .. MaxArith, b \in 0 .. MaxArith : ExtendedGcd(a, b)
    \/ \E a \in 0 .. MaxArith, m \in 2 .. MaxArith : ModInverse(a, m)

SpecArith == Init /\ [][NextArith]_vars

\* d divides x
Divides(d, x) == x % d = 0

\* the greatest common divisor of a, b >= 0, not both 0, by its definition
GreatestCommonDivisor(a, b) ==
    CHOOSE g \in 1 .. (a + b) :
        /\ Divides(g, a) /\ Divides(g, b)
        /\ \A d \in 1 .. (a + b) : (Divides(d, a) /\ Divides(d, b)) => d <= g

\* C17: key generation on distinct primes p, q of equal bit length sets n = p * q,
\* g = n + 1, lambda = lcm(p - 1, q - 1) and mu with mu * L(g^lambda mod n^2) = 1
\* modulo n and 0 <= mu < n; the modular inverse exists, no error is raised
KeyGeneration ==
    /\ crypto.exc = "none"
    /\ crypto.n = crypto.p * crypto.q
    /\ crypto.n_squared = crypto.n * crypto.n
    /\ crypto.g = crypto.n + 1
    /\ crypto.lambda_val > 0
    /\ Divides(crypto.p - 1, crypto.lambda_val)
    /\ Divides(crypto.q - 1, crypto.lambda_val)
    /\ \A k \in 1 .. (crypto.lambda_val - 1) :
            ~(Divides(crypto.p - 1, k) /\ Divides(crypto.q - 1, k))
    /\ (crypto.mu * _L(pow(crypto.g, crypto.lambda_val, crypto.n_squared), crypto.n))
            % crypto.n = 1
    /\ 0 <= crypto.mu /\ crypto.mu < crypto.n

\* the key of p = 11, q = 13: lambda = lcm(10, 12) = 60 is not (p - 1)(q - 1), mu = 31
KeyGenerationWitness ==
    /\ crypto.p = 11 /\ crypto.q = 13
    /\ crypto.n = 143
    /\ crypto.lambda_val = 60
    /\ crypto.mu = 31
    /\ arith.fn = "none"

\* C18: for a >= 0 and m >= 2, _mod_inverse(a, m) returns x with 0 <= x < m and
\* a * x = 1 modulo m when gcd(a, m) = 1, and raises otherwise
ModInverseCorrect ==
    arith.fn = "_mod_inverse"
        => IF GreatestCommonDivisor(arith.a, arith.b) = 1
           THEN /\ Returned(arith.ret)
                /\ 0 <= arith.ret.val /\ arith.ret.val < arith.b
                /\ (arith.a * arith.ret.val) % arith.b = 1
           ELSE arith.ret.exc = "Exception"

\* an inverse whose Bezout coefficient is negative before the reduction: 3 * 5 = 1
\* modulo 7, from 3 * (-2) + 7 * 1 = 1
ModInverseWitness ==
    /\ arith.fn = "_mod_inverse" /\ arith.a = 3 /\ arith.b = 7
    /\ Returned(arith.ret) /\ arith.ret.val = 5
    /\ _extended_gcd(3, 7)[2] < 0

\* C19: for a, b >= 0 not both 0, _extended_gcd(a, b) returns <<g, x, y>> with
\* g = gcd(a, b) and a * x + b * y = g
ExtendedGcdCorrect ==
    (arith.fn = "_extended_gcd" /\ arith.a + arith.b > 0)
        => /\ arith.ret[1] = GreatestCommonDivisor(arith.a, arith.b)
           /\ arith.a * arith.ret[2] + arith.b * arith.ret[3] = arith.ret[1]

\* gcd(12, 8) = 4 = 12 * 1 + 8 * (-1), reached through three recursive calls
ExtendedGcdWitness ==
    /\ arith.fn = "_extended_gcd" /\ arith.a = 12 /\ arith.b = 8
    /\ arith.ret = <<4, 1, -1>>

(***************************************************************************)
(* The feature scan of encrypt_user_data as a state machine: the loop      *)
(* reads the log one event at a time; scanned is what it has read, scan    *)
(* its counters and its flag after that.                                   *)
(***************************************************************************)
\* the events a log is made of: a video site, a shop, neither, a site on both lists
ScanSites == {BrowsePattern[1], BrowsePattern[2], BrowsePattern[3], BrowsePattern[5]}

ScanNext(event) ==
    /\ Len(scanned) < MaxScan
    /\ scanned' = Append(scanned, event)
    /\ scan' = ScanEvent(Analytics, scan, event)
    /\ UNCHANGED <<crypto, engineVars, analyticsVars, reductionVars, arith, sessions, chain, apiVars>>

NextExtract == \E event \in ScanSites : ScanNext(event)

SpecExtract == Init /\ [][NextExtract]_vars

\* the event matches category A, the short-video list
IsCategoryA(event) == MatchesCategory(Analytics, event.site, "short_video")

\* the event matches category B, the e-commerce list
IsCategoryB(event) == MatchesCategory(Analytics, event.site, "ecommerce")

\* C13: the transition count is the number of places i >= 2 of the log whose event
\* matches category B while the event before it matched category A; the
\* first event never counts
TransitionCount ==
    /\ scan.ecommerce_after_video
        = Cardinality({i \in 2 .. Len(scanned) :
                            IsCategoryB(scanned[i]) /\ IsCategoryA(scanned[i - 1])})
    /\ ExtractFeatures(Analytics, scanned).ecommerce_after_video = scan.ecommerce_after_video

\* C14: total visits is the length of the log, the category A and category B
\* counts are the numbers of events whose site contains a marker of the list; an
\* event matching both lists adds one to each
VisitCounts ==
    LET f == ExtractFeatures(Analytics, scanned)
        in_a == {i \in 1 .. Len(scanned) : IsCategoryA(scanned[i])}
        in_b == {i \in 1 .. Len(scanned) : IsCategoryB(scanned[i])}
    IN /\ f.total_visits = Len(scanned)
       /\ f.short_video_visits = Cardinality(in_a)
       /\ f.ecommerce_visits = Cardinality(in_b)
       /\ scan.short_video_visits = f.short_video_visits
       /\ scan.ecommerce_visits = f.ecommerce_visits

\* a log of a video site, a site on both lists, a site on neither and a shop: four
\* visits, two of category A and two of category B
VisitCountsWitness ==
    /\ Len(scanned) = 4
    /\ IsCategoryA(scanned[1]) /\ ~IsCategoryB(scanned[1])
    /\ IsCategoryA(scanned[2]) /\ IsCategoryB(scanned[2])
    /\ ~IsCategoryA(scanned[3]) /\ ~IsCategoryB(scanned[3])
    /\ ~IsCategoryA(scanned[4]) /\ IsCategoryB(scanned[4])
    /\ scan.short_video_visits = 2
    /\ scan.ecommerce_visits = 2

(***************************************************************************)
(* The orchestrator, PrivacyPreservingComputation.  self is the session:   *)
(* its PaillierCrypto instance, its analytics instance and the dataset     *)
(* metadata it loaded.  users[id] is the event log the data file of the    *)
(* user id holds; the ids of a dataset loaded at construction are 1 .. P,  *)
(* the ids of a generated dataset are the ones uuid4 draws.                *)
(*                                                                         *)
(* An analysis returns a trace: ret is what the method returned or raised, *)
(* and, as ghosts, sample_user_ids is the sample it drew,                  *)
(* encrypted_user_data the list it built and decrypt_calls the ciphertexts *)
(* it handed to decrypt, each with the number of users folded into it.     *)
(***************************************************************************)
\* the event logs a data file may hold: no event, a video visit, a visit to a site on
\* both lists, a video visit followed by a shop visit
DataFiles == {Browse(1, 0), Browse(1, 1), Browse(5, 1), Browse(1, 2)}

\* the users of a dataset
Datasets == UNION {[1 .. P -> DataFiles] : P \in 0 .. MaxPopulation}

\* the sites generate_browsing_session draws from, some of ALL_WEBSITES: three video
\* sites, two shops, two of the other categories
ALL_WEBSITES ==
    <<<<"tiktok.com">>, <<"amazon.com">>, <<"facebook.com">>, <<"youtube.com", "/shorts">>,
      <<"cnn.com">>, <<"ebay.com">>, <<"snapchat.com">>>>

\* what the random draws of a generation may come to
Seeds == {1, 2}

\* the i-th id generate_user_profile draws in a generation, str(uuid.uuid4()): an id
\* that no dataset loaded at construction holds
uuid4(i) == MaxPopulation + i

\* the events generate_dataset writes into the data file of the i-th user: num_events
\* events, their sites those of ALL_WEBSITES in turn, from a place and by a stride
\* that the draws decide
user_events(i, num_events, seed) ==
    [e \in 1 .. num_events |->
        [site |-> ALL_WEBSITES[((seed * i + e * (seed + i)) % Len(ALL_WEBSITES)) + 1]]]

\* data_generator.generate_small_test_dataset, generate_dataset with both bounds of
\* the number of events at events_per_user: the dataset it writes to
\* browser_history_test_dataset.json and returns, or the ZeroDivisionError of its
\* statistics when no event was generated; the file is not written then
generate_small_test_dataset(num_users, events_per_user, seed) ==
    IF num_users <= 0 \/ events_per_user <= 0
    THEN Raise("ZeroDivisionError")
    ELSE Return([users |-> [id \in {uuid4(i) : i \in 1 .. num_users} |->
                                user_events(CHOOSE i \in 1 .. num_users : uuid4(i) = id,
                                            events_per_user, seed)],
                 metadata |-> [date_range |-> "2024-01-01 to 2025-03-31"]])

\* no analysis has run in the session
NoRun == [op |-> "none"]

Trace(ret, ids, list, calls) == [ret |-> ret, sample_user_ids |-> ids, encrypted_user_data |-> list, decrypt_calls |-> calls]

\* the trace of an analysis that did not run
NoTrace == Trace(Unset, <<>>, <<>>, {})

\* PrivacyPreservingComputation.__init__ on the primes p, q and the dataset users
PrivacyPreservingComputation(p, q, users) ==
    LET c == PaillierCrypto(p, q)
    IN [created |-> TRUE,
        crypto |-> c,
        analytics |-> PrivacyPreservingAnalytics(c),
        dataset_metadata |-> [users |-> users, metadata |-> [date_range |-> "date_range"]],
        run |-> NoRun]

\* list(self.dataset_metadata["users"].keys()): the ids in the order of the file,
\* which is the order of the ids
AllUserIds(self) ==
    LET ids == DOMAIN self.dataset_metadata.users
    IN [i \in 1 .. Cardinality(ids) |->
            CHOOSE id \in ids : Cardinality({other \in ids : other < id}) = i - 1]

\* random.sample(population, k): what the call may return, every list of k distinct
\* elements of population, or ValueError for k < 0 or k > len(population)
random_sample(population, k) ==
    IF k < 0 \/ k > Len(population)
    THEN {Raise("ValueError")}
    ELSE {Return(ids) : ids \in {t \in [1 .. k -> {population[i] : i \in DOMAIN population}] :
                                    \A i, j \in 1 .. k : t[i] = t[j] => i = j}}

\* the sample size without the clamp to the population
SampleSize_unclamped(sample_size, all_user_ids) == sample_size

\* min(sample_size, len(all_user_ids))
SampleSize(sample_size, all_user_ids) ==
    IF sample_size < Len(all_user_ids) THEN sample_size ELSE Len(all_user_ids)

\* what sample_user_ids may become
SampleUserIds(self, sample_size) ==
    random_sample(AllUserIds(self), SampleSize(sample_size, AllUserIds(self)))

\* json.load of the user's data file
UserData(self, user_id) == self.dataset_metadata.users[user_id]

\* self.analytics.encrypt_user_data(user_data) for each user of the sample, in order
EncryptSample(self, ids) ==
    [i \in 1 .. Len(ids) |->
        encrypt_user_data(self.analytics, UserData(self, ids[i]), Tape(self.analytics.crypto, i))]

\* short_video_visits / total_visits > 0.5, or ZeroDivisionError
PrimarilyVideo(self, user_data) ==
    LET total_visits == Len(user_data)
        short_video_visits ==
            Cardinality({i \in 1 .. Len(user_data) :
                            MatchesCategory(self.analytics, user_data[i].site, "short_video")})
    IN IF total_visits = 0
       THEN Raise("ZeroDivisionError")
       ELSE Return(2 * short_video_visits > total_visits)

\* one pass of analyze_ecommerce_after_video's inner loop over event, from the flags
\* st; the loop is left once has_pattern is set
PatternEvent(self, st, event) ==
    LET site == event.site
        is_video == MatchesCategory(self.analytics, site, "short_video")
        is_ecommerce == MatchesCategory(self.analytics, site, "ecommerce")
    IN IF st.has_pattern THEN st
       ELSE IF st.last_was_video /\ is_ecommerce
       THEN [has_pattern |-> TRUE, last_was_video |-> st.last_was_video]
       ELSE [has_pattern |-> FALSE, last_was_video |-> is_video]

RECURSIVE PatternFrom(_, _, _, _, _)
\* the passes of the inner loop over the events lo .. hi of user_data, from the flags
\* st: the first half of the events, then the second from where the first half ended
PatternFrom(self, st, user_data, lo, hi) ==
    IF lo > hi THEN st
    ELSE IF lo = hi THEN PatternEvent(self, st, user_data[lo])
    ELSE LET half == PatternFrom(self, st, user_data, lo, (lo + hi) \div 2)
         IN CASE half.has_pattern \in BOOLEAN ->
                    PatternFrom(self, half, user_data, ((lo + hi) \div 2) + 1, hi)

\* has_pattern and last_was_video after the first i events of analyze_ecommerce_after_video's
\* inner loop
PatternScan(self, user_data, i) ==
    PatternFrom(self, [has_pattern |-> FALSE, last_was_video |-> FALSE], user_data, 1, i)

\* has_pattern when the inner loop is over
HasPattern(self, user_data) == PatternScan(self, user_data, Len(user_data)).has_pattern

\* the place of the first user at which the loop raises, 0 if it raises at none
FirstRaise(excs) ==
    LET bad == {i \in DOMAIN excs : excs[i] # "none"}
    IN IF bad = {} THEN 0 ELSE CHOOSE i \in bad : \A j \in bad : i <= j

\* the list the loop has built when it raises at the user at place stop
BuiltUntil(enc, stop) ==
    LET upto == IF Returned(enc[stop]) THEN stop ELSE stop - 1
    IN [i \in 1 .. upto |-> enc[i].val]

\* the ciphertexts decrypt_and_analyze hands to decrypt, the lanes of the aggregate
\* (the empty dict has none), each with the number of users folded into it
DecryptCalls(aggregated_data, folded) ==
    {[lane |-> lane, ciphertext |-> aggregated_data[lane], users |-> folded] :
        lane \in DOMAIN aggregated_data}

\* decrypt_and_analyze(aggregated_data) at the end of both analyses, with its ghosts
Analyse(self, ids, list, aggregated_data) ==
    Trace(decrypt_and_analyze(self.analytics, aggregated_data), ids, list,
          DecryptCalls(aggregated_data, Len(list)))

\* the end of both analyses: aggregate the list, decrypt and analyse the aggregate
AggregateAndAnalyze(self, ids, list) ==
    Analyse(self, ids, list, aggregate_encrypted_data(self.analytics, list))

\* the three entries an analysis adds to the results of decrypt_and_analyze: the
\* sample size, the cohort count under the key name, its percentage under name_pct
WithCohort(end, name, name_pct, count, percentage) ==
    IF ~Returned(end.ret) THEN end
    ELSE IF ~Returned(percentage) THEN [end EXCEPT !.ret = percentage]
    ELSE [end EXCEPT !.ret = Return(end.ret.val @@
            (name :> count) @@ (name_pct :> percentage.val)
            @@ [users_sampled |-> Len(end.sample_user_ids)])]

\* what a pass of the sampling loop raises for each user of the sample, "none" if
\* nothing: the exception of encrypt_user_data, else the one of the plaintext test
LoopRaises(enc, tests) ==
    [i \in DOMAIN enc |-> IF ~Returned(enc[i]) THEN enc[i].exc ELSE tests[i].exc]

\* an analysis from its loop on: the loop is left at place stop > 0 by the exception
\* excs[stop]; else the aggregate is analysed and the users whose test holds counted
FromLoop(self, ids, enc, tests, excs, stop, name, name_pct) ==
    IF stop > 0
    THEN Trace(Raise(excs[stop]), ids, BuiltUntil(enc, stop), {})
    ELSE WithCohort(AggregateAndAnalyze(self, ids, [i \in DOMAIN enc |-> enc[i].val]),
                    name, name_pct,
                    Cardinality({i \in DOMAIN tests : tests[i].val}),
                    Percentage(Cardinality({i \in DOMAIN tests : tests[i].val}), Len(ids)))

\* an analysis from its sample on: every user is encrypted and tested in order
FromSample(self, ids, enc, tests, name, name_pct) ==
    FromLoop(self, ids, enc, tests, LoopRaises(enc, tests),
             FirstRaise(LoopRaises(enc, tests)), name, name_pct)

\* PrivacyPreservingComputation.analyze_short_video_preference; drawn is what
\* random.sample returned or raised
analyze_short_video_preference(self, sample_size, drawn) ==
    IF ~Returned(drawn) THEN Trace(drawn, <<>>, <<>>, {})
    ELSE FromSample(self, drawn.val, EncryptSample(self, drawn.val),
                    [i \in DOMAIN drawn.val |->
                        PrimarilyVideo(self, UserData(self, drawn.val[i]))],
                    "users_primarily_video", "users_primarily_video_percentage")

\* PrivacyPreservingComputation.analyze_ecommerce_after_video; drawn is what
\* random.sample returned or raised
analyze_ecommerce_after_video(self, sample_size, drawn) ==
    IF ~Returned(drawn) THEN Trace(drawn, <<>>, <<>>, {})
    ELSE FromSample(self, drawn.val, EncryptSample(self, drawn.val),
                    [i \in DOMAIN drawn.val |->
                        Return(HasPattern(self, UserData(self, drawn.val[i])))],
                    "users_with_pattern", "users_with_pattern_percentage")

\* the run of one analysis alone
RunOf(op, sample_size, t, video, ecommerce) ==
    [op |-> op, sample_size |-> sample_size, ret |-> t.ret,
     video |-> IF video THEN t ELSE NoTrace, ecommerce |-> IF ecommerce THEN t ELSE NoTrace]

\* the end of run_full_analysis: the report built from the two analyses' results,
\* or the exception of the first that raised
FullReport(self, sample_size, video, ecommerce) ==
    [op |-> "run_full_analysis",
     sample_size |-> sample_size,
     ret |-> IF ~Returned(video.ret) THEN video.ret
             ELSE IF ~Returned(ecommerce.ret) THEN ecommerce.ret
             ELSE Return([short_video_analysis |-> video.ret.val,
                          ecommerce_after_video_analysis |-> ecommerce.ret.val,
                          dataset_info |->
                            [total_users |-> Cardinality(DOMAIN self.dataset_metadata.users),
                             sampled_users |-> sample_size,
                             date_range |-> self.dataset_metadata.metadata.date_range]]),
     video |-> video,
     ecommerce |-> IF ~Returned(video.ret) THEN NoTrace ELSE ecommerce]

\* what run_full_analysis finds around the session when it is called.  dataset_file:
\* the file at self.dataset_path is still there.  If it is not, data_generator: the
\* module can be imported; at_dataset_path: browser_history_test_dataset.json in the
\* working directory, the file the generator writes, is the file at
\* self.dataset_path; seed: what the generator's random draws come to
Surroundings ==
    {[dataset_file |-> TRUE, data_generator |-> TRUE, at_dataset_path |-> TRUE, seed |-> 1],
     [dataset_file |-> FALSE, data_generator |-> FALSE, at_dataset_path |-> TRUE, seed |-> 1],
     [dataset_file |-> FALSE, data_generator |-> TRUE, at_dataset_path |-> FALSE, seed |-> 1]}
        \cup {[dataset_file |-> FALSE, data_generator |-> TRUE, at_dataset_path |-> TRUE,
                seed |-> seed] : seed \in Seeds}

\* the try statement at the head of run_full_analysis: the session as it goes on to
\* the analyses, or the exception that ends the call.  With the dataset file in
\* place nothing changes; without it a dataset of sample_size users is generated
\* and self.dataset_metadata loaded again from self.dataset_path
OpenOrGenerate(self, sample_size, found) ==
    IF found.dataset_file THEN Return(self)
    ELSE IF ~found.data_generator THEN Raise("ModuleNotFoundError")
    ELSE LET generated == generate_small_test_dataset(sample_size, 1000, found.seed)
         IN IF ~Returned(generated) THEN generated
            ELSE IF ~found.at_dataset_path THEN Raise("FileNotFoundError")
            ELSE Return([self EXCEPT !.dataset_metadata = generated.val])

\* PrivacyPreservingComputation.run_full_analysis: the session after the call, run
\* holding what the call returned or raised; found is what the call finds around
\* the session, drawn1 and drawn2 are what the two analyses' random.sample calls
\* returned or raised
run_full_analysis(self, sample_size, found, drawn1, drawn2) ==
    LET opened == OpenOrGenerate(self, sample_size, found)
    IN IF ~Returned(opened)
       THEN \* the call is left by the exception of its try statement, no analysis has run
            [self EXCEPT !.run = [op |-> "run_full_analysis", sample_size |-> sample_size,
                                  ret |-> opened, video |-> NoTrace, ecommerce |-> NoTrace]]
       ELSE [opened.val EXCEPT !.run =
                FullReport(opened.val, sample_size,
                           analyze_short_video_preference(opened.val, sample_size, drawn1),
                           analyze_ecommerce_after_video(opened.val, sample_size, drawn2))]

(***************************************************************************)
(* The sessions as a state machine: a session is constructed on a dataset, *)
(* then runs one analysis.  SpecOrchestrator drives one session over every *)
(* dataset, SpecSessions two sessions over one dataset.                    *)
(***************************************************************************)
\* the sample sizes asked for: none, up to the population, more than it
SampleSizes == 0 .. (MaxPopulation + 1)

\* __init__ keeping the PaillierCrypto instance in a class attribute: the sessions
\* constructed before now use the key of the newest one
NewSession_shared_key(s, pq, users) ==
    /\ ~sessions[s].created
    /\ LET new == PrivacyPreservingComputation(pq[1], pq[2], users)
       IN sessions' = [t \in SessionIds |->
                        IF t = s THEN new
                        ELSE IF sessions[t].created
                        THEN [sessions[t] EXCEPT !.crypto = new.crypto,
                                                 !.analytics = new.analytics]
                        ELSE sessions[t]]
    /\ UNCHANGED <<crypto, engineVars, analyticsVars, reductionVars, arith, extractVars, chain, apiVars>>

NewSession(s, pq, users) ==
    /\ ~sessions[s].created
    /\ sessions' = [sessions EXCEPT ![s] = PrivacyPreservingComputation(pq[1], pq[2], users)]
    /\ UNCHANGED <<crypto, engineVars, analyticsVars, reductionVars, arith, extractVars, chain, apiVars>>

AnalyzeShortVideoPreference(s, sample_size) ==
    /\ sessions[s].created
    /\ sessions[s].run.op = "none"
    /\ \E drawn \in SampleUserIds(sessions[s], sample_size) :
        sessions' = [sessions EXCEPT ![s].run =
                        RunOf("analyze_short_video_preference", sample_size,
                              analyze_short_video_preference(sessions[s], sample_size, drawn),
                              TRUE, FALSE)]
    /\ UNCHANGED <<crypto, engineVars, analyticsVars, reductionVars, arith, extractVars, chain, apiVars>>

AnalyzeEcommerceAfterVideo(s, sample_size) ==
    /\ sessions[s].created
    /\ sessions[s].run.op = "none"
    /\ \E drawn \in SampleUserIds(sessions[s], sample_size) :
        sessions' = [sessions EXCEPT ![s].run =
                        RunOf("analyze_ecommerce_after_video", sample_size,
                              analyze_ecommerce_after_video(sessions[s], sample_size, drawn),
                              FALSE, TRUE)]
    /\ UNCHANGED <<crypto, engineVars, analyticsVars, reductionVars, arith, extractVars, chain, apiVars>>

RunFullAnalysis(s, sample_size) ==
    /\ sessions[s].created
    /\ sessions[s].run.op = "none"
    /\ \E found \in Surroundings :
        LET opened == OpenOrGenerate(sessions[s], sample_size, found)
            \* what random.sample may return or raise in an analysis that is called,
            \* and the one outcome of a call that is not made
            samples == IF Returned(opened) THEN SampleUserIds(opened.val, sample_size)
                       ELSE {Unset}
            \* the first analysis on the sample drawn1
            video(drawn1) ==
                run_full_analysis(sessions[s], sample_size, found, drawn1, Unset).run.video
        IN \E drawn1 \in samples :
            \E drawn2 \in IF Returned(video(drawn1).ret) THEN samples ELSE {Unset} :
                sessions' = [sessions EXCEPT ![s] =
                                run_full_analysis(sessions[s], sample_size, found,
                                                  drawn1, drawn2)]
    /\ UNCHANGED <<crypto, engineVars, analyticsVars, reductionVars, arith, extractVars, chain, apiVars>>

NextOrchestrator ==
    \/ \E pq \in PrimePairs, users \in Datasets : NewSession("s1", pq, users)
    \/ \E sample_size \in SampleSizes : AnalyzeShortVideoPreference("s1", sample_size)
    \/ \E sample_size \in SampleSizes : AnalyzeEcommerceAfterVideo("s1", sample_size)
    \/ \E sample_size \in SampleSizes : RunFullAnalysis("s1", sample_size)

\* no session is constructed yet; each session generates its own key, the key of the
\* engine outside the sessions plays no part, so one is enough
InitSessions == Init /\ crypto = PaillierCrypto(5, 7)

SpecOrchestrator == InitSessions /\ [][NextOrchestrator]_vars

\* the dataset both sessions of SpecSessions load: a user with a video visit followed
\* by a shop visit, a user with one video visit
SharedDataset == <<Browse(1, 2), Browse(1, 1)>>

NextSessions ==
    \/ \E s \in SessionIds, pq \in PrimePairs : NewSession(s, pq, SharedDataset)
    \/ \E s \in SessionIds : AnalyzeShortVideoPreference(s, Len(SharedDataset))
    \/ \E s \in SessionIds : AnalyzeEcommerceAfterVideo(s, Len(SharedDataset))
    \/ \E s \in SessionIds : RunFullAnalysis(s, Len(SharedDataset))

SpecSessions == InitSessions /\ [][NextSessions]_vars

\* the sessions in which an analysis has run
Ran == {s \in SessionIds : sessions[s].created /\ sessions[s].run.op # "none"}

\* the two analyses a run may hold a trace of
Analyses == {"video", "ecommerce"}

\* the analysis which of session s has run, to its end or to an exception
HasRun(s, which) == s \in Ran /\ sessions[s].run[which].ret.exc # "unset"

\* the size of the population of session s
Population(s) == Cardinality(DOMAIN sessions[s].dataset_metadata.users)

\* the trace sampled every user of the population exactly once and built one
\* encrypted vector for each
ProcessedOnce(s, t) ==
    /\ \A id \in DOMAIN sessions[s].dataset_metadata.users :
            Cardinality({i \in DOMAIN t.sample_user_ids : t.sample_user_ids[i] = id}) = 1
    /\ Len(t.encrypted_user_data) = Population(s)

\* C11: for a population of P >= 1 users and a requested sample_size > P the full
\* analysis does not fail, users_sampled of both sub-analyses and sampled_users of
\* dataset_info are P, and every user of the population is processed exactly once
SamplingClamp ==
    \A s \in Ran :
        LET run == sessions[s].run
        IN (run.op = "run_full_analysis" /\ Population(s) >= 1
                /\ run.sample_size > Population(s))
            => /\ Returned(run.ret)
               /\ run.ret.val.short_video_analysis.users_sampled = Population(s)
               /\ run.ret.val.ecommerce_after_video_analysis.users_sampled = Population(s)
               /\ run.ret.val.dataset_info.sampled_users = Population(s)
               /\ ProcessedOnce(s, run.video)
               /\ ProcessedOnce(s, run.ecommerce)

\* the counts the i-th vector of the list encrypts, lane by lane
VectorCounts(self, vector) ==
    [total_visits |-> decrypt(self.crypto, vector.encrypted_total_visits),
     short_video_visits |-> decrypt(self.crypto, vector.encrypted_short_video_visits),
     ecommerce_visits |-> decrypt(self.crypto, vector.encrypted_ecommerce_visits),
     ecommerce_after_video |-> decrypt(self.crypto, vector.encrypted_ecommerce_after_video)]

\* C12: in every analysis run the sampled user ids are pairwise distinct, belong to
\* the population index and number min(sample_size, population size); each sampled
\* user contributes exactly one encrypted vector, its own, to the aggregate
SamplingWithoutReplacement ==
    \A s \in Ran : \A which \in Analyses :
        HasRun(s, which)
            => LET self == sessions[s]
                   t == self.run[which]
                   ids == t.sample_user_ids
                   requested == self.run.sample_size
               IN /\ Len(ids) = IF requested < Population(s) THEN requested ELSE Population(s)
                  /\ \A i, j \in 1 .. Len(ids) : ids[i] = ids[j] => i = j
                  /\ \A i \in 1 .. Len(ids) : ids[i] \in DOMAIN self.dataset_metadata.users
                  /\ t.decrypt_calls # {}
                        => /\ Len(t.encrypted_user_data) = Len(ids)
                           /\ \A call \in t.decrypt_calls : call.users = Len(ids)
                           /\ \A i \in 1 .. Len(ids) :
                                VectorCounts(self, t.encrypted_user_data[i])
                                    = ExtractFeatures(self.analytics, UserData(self, ids[i]))

\* a population of two users of which three are asked for: both are sampled, the
\* second first, and the aggregate is decrypted
SamplingWithoutReplacementWitness ==
    /\ "s1" \in Ran
    /\ sessions["s1"].run.op = "analyze_ecommerce_after_video"
    /\ sessions["s1"].run.sample_size = 3
    /\ sessions["s1"].run.ecommerce.sample_user_ids = <<2, 1>>
    /\ Len(sessions["s1"].run.ecommerce.encrypted_user_data) = 2
    /\ Returned(sessions["s1"].run.ret)
    /\ sessions["s1"].run.ret.val.users_sampled = 2

\* C15: in every run of a sampled analysis with a sample of at least one user,
\* decrypt is applied only to ciphertexts of the final aggregate, never to a
\* ciphertext that encodes a single user's count
OnlyAggregateDecrypted ==
    \A s \in Ran : \A which \in Analyses :
        HasRun(s, which)
            => \A call \in sessions[s].run[which].decrypt_calls : call.users >= 2

\* C16: a sampled user is counted in users_with_pattern exactly if the transition
\* count extracted and encrypted for the user is above 0, and in
\* users_primarily_video exactly if the extracted short-video count is more than
\* half of the extracted total
CohortFlags ==
    \A s \in Ran :
        LET self == sessions[s]
            run == self.run
            extracted(t, i) ==
                ExtractFeatures(self.analytics, UserData(self, t.sample_user_ids[i]))
        IN /\ (run.op = "analyze_ecommerce_after_video" /\ Returned(run.ret))
                => run.ret.val.users_with_pattern
                    = Cardinality({i \in DOMAIN run.ecommerce.sample_user_ids :
                            extracted(run.ecommerce, i).ecommerce_after_video > 0})
           /\ (run.op = "analyze_short_video_preference" /\ Returned(run.ret))
                => run.ret.val.users_primarily_video
                    = Cardinality({i \in DOMAIN run.video.sample_user_ids :
                            2 * extracted(run.video, i).short_video_visits
                                > extracted(run.video, i).total_visits})

\* the count each lane of an aggregate is decrypted into
PlainLane ==
    [encrypted_total_visits |-> "total_visits",
     encrypted_short_video_visits |-> "short_video_visits",
     encrypted_ecommerce_visits |-> "ecommerce_visits",
     encrypted_ecommerce_after_video |-> "ecommerce_after_video"]

\* session s has one PaillierCrypto instance: its analytics holds the same one, the
\* vectors of its run are encrypt's under that key, the ciphertexts it decrypted are
\* their aggregate under that key, and the counts reported are their decryptions
\* under that key
SessionKeyUsed(s) ==
    LET self == sessions[s]
        own == PrivacyPreservingAnalytics(self.crypto)
    IN /\ self.analytics.crypto = self.crypto
       /\ \A which \in Analyses :
            HasRun(s, which)
                => LET t == self.run[which]
                   IN /\ \A i \in DOMAIN t.encrypted_user_data :
                            t.encrypted_user_data[i]
                                = encrypt_user_data(own, UserData(self, t.sample_user_ids[i]),
                                                    Tape(self.crypto, i)).val
                      /\ \A call \in t.decrypt_calls :
                            /\ call.ciphertext
                                = aggregate_encrypted_data(own, t.encrypted_user_data)[call.lane]
                            /\ Returned(t.ret)
                                => t.ret.val[PlainLane[call.lane]]
                                    = decrypt(self.crypto, call.ciphertext)

\* a step leaves the key of every session that exists as it is
KeyFrame ==
    \A s \in SessionIds :
        sessions[s].created
            => /\ sessions'[s].created
               /\ sessions'[s].crypto = sessions[s].crypto
               /\ sessions'[s].analytics.crypto = sessions[s].analytics.crypto

\* C20: every ciphertext a session aggregates or decrypts was produced by encrypt
\* under the session's own key pair, the one PaillierCrypto instance encryption,
\* aggregation and decryption use; constructing or running another session
\* leaves the session's n, g, lambda and mu unchanged
OneKeyPerSession ==
    /\ [](\A s \in SessionIds : sessions[s].created => SessionKeyUsed(s))
    /\ [][KeyFrame]_vars

\* two sessions with different keys, each having run an analysis to its end
OneKeyPerSessionWitness ==
    /\ Ran = SessionIds
    /\ sessions["s1"].crypto.n = 35
    /\ sessions["s2"].crypto.n = 143
    /\ Returned(sessions["s1"].run.ret)
    /\ Returned(sessions["s2"].run.ret)
    /\ sessions["s1"].run.op = "analyze_short_video_preference"
    /\ sessions["s2"].run.op = "run_full_analysis"

(***************************************************************************)
(* Further properties of the feature scan, under SpecExtract.              *)
(***************************************************************************)
\* the event matches category A alone, category B alone, neither
OnlyA(event) == IsCategoryA(event) /\ ~IsCategoryB(event)
OnlyB(event) == IsCategoryB(event) /\ ~IsCategoryA(event)
Neither(event) == ~IsCategoryA(event) /\ ~IsCategoryB(event)

\* C26: after each event is processed the carried flag is true exactly when that
\* event matched category A, a category B match resets it as well; so a log A, A, B
\* yields one transition and a log A, neither, B yields none
LastWasAFlag ==
    /\ scanned # <<>> => (scan.last_was_video <=> IsCategoryA(scanned[Len(scanned)]))
    /\ (Len(scanned) = 3 /\ OnlyA(scanned[1]) /\ OnlyA(scanned[2]) /\ OnlyB(scanned[3]))
            => scan.ecommerce_after_video = 1
    /\ (Len(scanned) = 3 /\ OnlyA(scanned[1]) /\ Neither(scanned[2]) /\ OnlyB(scanned[3]))
            => scan.ecommerce_after_video = 0

\* the log A, neither, B has been scanned: two resets of the flag, no transition
LastWasAFlagWitness ==
    /\ Len(scanned) = 3
    /\ OnlyA(scanned[1]) /\ Neither(scanned[2]) /\ OnlyB(scanned[3])
    /\ ~scan.last_was_video
    /\ scan.short_video_visits = 1 /\ scan.ecommerce_visits = 1
    /\ scan.ecommerce_after_video = 0

\* x <= y on floats x, y >= 0
FloatLeq(x, y) ==
    \/ x.bits[1] = 0
    \/ /\ y.bits[1] = 1
       /\ \/ x.exp < y.exp
          \/ /\ x.exp = y.exp
             /\ \A i \in 1 .. Precision :
                    (x.bits[i] > y.bits[i]) => \E j \in 1 .. (i - 1) : x.bits[j] < y.bits[j]

\* the float 100.0
Hundred == float_times(true_divide(1, 1), 100)

\* the percentage x is at most 100
AtMostHundred(x) == FloatLeq(x, Hundred)

\* C27: for every event log the extracted counts satisfy 0 <= A <= total,
\* 0 <= B <= total and 0 <= transitions <= min(A, B), so the transition percentage
\* transitions / A never exceeds 100
FeatureBounds ==
    LET f == ExtractFeatures(Analytics, scanned)
    IN /\ 0 <= f.short_video_visits /\ f.short_video_visits <= f.total_visits
       /\ 0 <= f.ecommerce_visits /\ f.ecommerce_visits <= f.total_visits
       /\ 0 <= f.ecommerce_after_video
       /\ f.ecommerce_after_video <= f.short_video_visits
       /\ f.ecommerce_after_video <= f.ecommerce_visits
       /\ AtMostHundred(Report(f, f.total_visits > 0, f.short_video_visits > 0).val
                            .ecommerce_after_video_percentage)

(***************************************************************************)
(* Totality of the analyses, under SpecOrchestrator.                       *)
(***************************************************************************)
\* C28: for every population and every sample_size >= 1 that yields a non-empty
\* sample, analyze_short_video_preference and analyze_ecommerce_after_video
\* process every sampled user and return a report without raising, also when a
\* sampled user's event log is empty
OrchestratorTotality ==
    \A s \in Ran : \A which \in Analyses :
        LET run == sessions[s].run
            t == run[which]
        IN (HasRun(s, which) /\ run.op # "run_full_analysis"
                /\ run.sample_size >= 1 /\ Population(s) >= 1)
            => /\ Returned(t.ret)
               /\ Len(t.encrypted_user_data) = Len(t.sample_user_ids)
               /\ t.ret.val.users_sampled = Len(t.sample_user_ids)

(***************************************************************************)
(* Chains of engine operations: a plaintext is encrypted, encrypt's redraw *)
(* loop included, the ciphertext is combined up to MaxChain times by       *)
(* add_encrypted, add_constant and multiply_constant in any order, and     *)
(* decrypted at any point.                                                 *)
(***************************************************************************)
\* the values random.randint(1, n - 1) returns here: the small ones and the two
\* prime factors of n
DrawValues(self) ==
    (1 .. (IF self.n - 1 < MaxRand THEN self.n - 1 ELSE MaxRand)) \cup {self.p, self.q}

\* what the calls of random.randint made by one encrypt call return, in order: the
\* loop goes on while the draw shares a factor with n, so only the last one does not
DrawSequences(self) ==
    UNION {{draws \in [1 .. len -> DrawValues(self)] :
                \A i \in 1 .. len : (gcd(draws[i], self.n) = 1) <=> (i = len)} :
           len \in 1 .. MaxDraws}

\* encrypt using its first draw whatever it is, without the loop
UsedDraw_without_loop(self, draws, i) == draws[i]

RECURSIVE UsedDraw(_, _, _)
\* the r encrypt's loop is left with, the draws from the i-th on being still to come
UsedDraw(self, draws, i) ==
    IF gcd(draws[i], self.n) # 1 THEN UsedDraw(self, draws, i + 1) ELSE draws[i]

\* x of decrypt, the argument it hands to _L
LArgument(self, c) == pow(c, self.lambda_val, self.n_squared)

\* plaintexts, second operands and constants of the chains
ChainPlaintexts(self) == {0, 1, self.n - 1}
ChainOperands(self) == {1, self.n - 1}
ChainConstants(self) == {0, 2, self.n + 1}

EncryptDrawing(m, draws) ==
    /\ history.op = "none"
    /\ ciphertext' = encrypt(crypto, m, UsedDraw(crypto, draws, 1))
    /\ history' = [op |-> "encrypt", a |-> m, b |-> UsedDraw(crypto, draws, 1)]
    /\ chain' = [depth |-> 0, draws |-> draws]
    /\ UNCHANGED <<crypto, decrypted, analyticsVars, reductionVars, arith, extractVars, sessions, apiVars>>

ThenAddEncrypted(b, rb) ==
    /\ history.op # "none"
    /\ Returned(ciphertext)
    /\ chain.depth < MaxChain
    /\ ciphertext' = Return(add_encrypted(crypto, ciphertext.val, encrypt(crypto, b, rb).val))
    /\ history' = [op |-> "add_encrypted", a |-> history.a, b |-> b]
    /\ decrypted' = Unset
    /\ chain' = [depth |-> chain.depth + 1, draws |-> <<>>]
    /\ UNCHANGED <<crypto, analyticsVars, reductionVars, arith, extractVars, sessions, apiVars>>

ThenAddConstant(k) ==
    /\ history.op # "none"
    /\ Returned(ciphertext)
    /\ chain.depth < MaxChain
    /\ ciphertext' = Return(add_constant(crypto, ciphertext.val, k))
    /\ history' = [op |-> "add_constant", a |-> history.a, b |-> k]
    /\ decrypted' = Unset
    /\ chain' = [depth |-> chain.depth + 1, draws |-> <<>>]
    /\ UNCHANGED <<crypto, analyticsVars, reductionVars, arith, extractVars, sessions, apiVars>>

\* multiply_constant storing g^k as the key's g
ThenMultiplyConstant_scaling_g(k) ==
    /\ history.op # "none"
    /\ Returned(ciphertext)
    /\ chain.depth < MaxChain
    /\ ciphertext' = Return(multiply_constant(crypto, ciphertext.val, k))
    /\ history' = [op |-> "multiply_constant", a |-> history.a, b |-> k]
    /\ decrypted' = Unset
    /\ chain' = [depth |-> chain.depth + 1, draws |-> <<>>]
    /\ crypto' = [crypto EXCEPT !.g = pow(crypto.g, k, crypto.n_squared)]
    /\ UNCHANGED <<analyticsVars, reductionVars, arith, extractVars, sessions, apiVars>>

ThenMultiplyConstant(k) ==
    /\ history.op # "none"
    /\ Returned(ciphertext)
    /\ chain.depth < MaxChain
    /\ ciphertext' = Return(multiply_constant(crypto, ciphertext.val, k))
    /\ history' = [op |-> "multiply_constant", a |-> history.a, b |-> k]
    /\ decrypted' = Unset
    /\ chain' = [depth |-> chain.depth + 1, draws |-> <<>>]
    /\ UNCHANGED <<crypto, analyticsVars, reductionVars, arith, extractVars, sessions, apiVars>>

NextChain ==
    \/ \E m \in ChainPlaintexts(crypto), draws \in DrawSequences(crypto) : EncryptDrawing(m, draws)
    \/ \E b \in ChainOperands(crypto), rb \in AcceptedDraws(crypto) : ThenAddEncrypted(b, rb)
    \/ \E k \in ChainConstants(crypto) : ThenAddConstant(k)
    \/ \E k \in ChainConstants(crypto) : ThenMultiplyConstant(k)
    \/ Decrypt

SpecChain == Init /\ [][NextChain]_vars

\* the ciphertext is the outcome of a chain that was combined MaxChain times
FullChain == history.op # "none" /\ Returned(ciphertext) /\ chain.depth = MaxChain

\* C22: the argument of every call of _L is congruent to 1 modulo n, so the floor
\* division of _L drops no remainder: the call of key generation, whose argument is
\* g^lambda mod n^2, and the call of decrypt on every ciphertext that encrypt or a
\* chain of add_encrypted, add_constant and multiply_constant has returned
ExactL ==
    /\ pow(crypto.g, crypto.lambda_val, crypto.n_squared) % crypto.n = 1
    /\ _L(pow(crypto.g, crypto.lambda_val, crypto.n_squared), crypto.n) * crypto.n + 1
           = pow(crypto.g, crypto.lambda_val, crypto.n_squared)
    /\ Returned(ciphertext) =>
           /\ LArgument(crypto, ciphertext.val) % crypto.n = 1
           /\ _L(LArgument(crypto, ciphertext.val), crypto.n) * crypto.n + 1
                  = LArgument(crypto, ciphertext.val)

\* decrypt has called _L on a ciphertext that a full chain ending in
\* multiply_constant returned, and on one that is not 1
ExactLWitness ==
    /\ FullChain
    /\ history.op = "multiply_constant"
    /\ Returned(decrypted)
    /\ LArgument(crypto, ciphertext.val) > 1

\* C23: every value encrypt, add_encrypted, add_constant and multiply_constant
\* return, after any chain of them, is an integer of [0, n^2)
CiphertextClosure ==
    Returned(ciphertext) => ciphertext.val \in 0 .. (crypto.n_squared - 1)

\* a full chain whose last operation is add_constant with a constant above n
CiphertextClosureWitness ==
    /\ FullChain
    /\ history.op = "add_constant"
    /\ history.b = crypto.n + 1
    /\ ciphertext.val > crypto.n

\* C24: the r encrypt builds its ciphertext from lies in [1, n - 1] and shares no
\* factor with n; it is the last draw, every draw before it shares a factor with n
\* and is not the one used
RandomizationFactor ==
    (history.op = "encrypt" /\ Returned(ciphertext)) =>
        /\ history.b \in 1 .. (crypto.n - 1)
        /\ GreatestCommonDivisor(history.b, crypto.n) = 1
        /\ history.b = chain.draws[Len(chain.draws)]
        /\ ciphertext = encrypt(crypto, history.a, chain.draws[Len(chain.draws)])
        /\ \A i \in 1 .. (Len(chain.draws) - 1) :
               /\ GreatestCommonDivisor(chain.draws[i], crypto.n) > 1
               /\ history.b # chain.draws[i]

\* encrypt drew a multiple of p first, drew again and returned a ciphertext
RandomizationFactorWitness ==
    /\ history.op = "encrypt"
    /\ Returned(ciphertext)
    /\ Len(chain.draws) = 2
    /\ chain.draws[1] % crypto.p = 0
    /\ history.b # chain.draws[1]

\* every r of [1, n - 1] that shares no factor with n
CoprimeFactors(self) == {r \in 1 .. (self.n - 1) : GreatestCommonDivisor(r, self.n) = 1}

\* C25: under one key, the encryption of a plaintext m of [0, n) with a factor r1
\* and its encryption with any other factor r2 (both of [1, n - 1], coprime to n)
\* are different ciphertexts, and both decrypt to m
SemanticRandomization ==
    (history.op = "encrypt" /\ Returned(ciphertext) /\ history.a \in 0 .. (crypto.n - 1)) =>
        /\ history.b \in CoprimeFactors(crypto)
        /\ decrypt(crypto, ciphertext.val) = history.a
        /\ \A r2 \in CoprimeFactors(crypto) \ {history.b} :
               /\ encrypt(crypto, history.a, r2).val # ciphertext.val
               /\ decrypt(crypto, encrypt(crypto, history.a, r2).val) = history.a

\* a plaintext above 1 was encrypted with a factor above 1 and decrypted
SemanticRandomizationWitness ==
    /\ history.op = "encrypt"
    /\ history.a \in 2 .. (crypto.n - 1)
    /\ history.b > 1
    /\ Returned(ciphertext)
    /\ Returned(decrypted)
    /\ decrypted.val = history.a

(***************************************************************************)
(* One key used by both layers: the engine's chains and the analytics      *)
(* pipeline run interleaved on the same PaillierCrypto instance.           *)
(***************************************************************************)
\* the logs of the users of the interleaved runs
KeyUseLogs == {Browse(1, 2), Browse(2, 1)}

NextKeyUse ==
    \/ EncryptDrawing(1, <<crypto.p, 2>>)
    \/ ThenAddEncrypted(1, 2)
    \/ ThenAddConstant(2)
    \/ ThenMultiplyConstant(2)
    \/ Decrypt
    \/ \E user_data \in KeyUseLogs : EncryptUserData(user_data)
    \/ Aggregate
    \/ DecryptAndAnalyze

SpecKeyUse == Init /\ [][NextKeyUse]_vars

\* C21: the key is what __init__ generated from p and q at every moment, and no step
\* of encrypt, decrypt, add_encrypted, add_constant, multiply_constant,
\* encrypt_user_data, aggregate_encrypted_data or decrypt_and_analyze, in any
\* interleaving, changes n, n^2, g, lambda or mu
KeyReadOnly ==
    /\ [](crypto = PaillierCrypto(crypto.p, crypto.q))
    /\ [][/\ crypto'.n = crypto.n
          /\ crypto'.n_squared = crypto.n_squared
          /\ crypto'.g = crypto.g
          /\ crypto'.lambda_val = crypto.lambda_val
          /\ crypto'.mu = crypto.mu]_vars

\* a full chain has been decrypted and two users' data encrypted, aggregated and
\* analysed, all under the one key
KeyReadOnlyWitness ==
    /\ FullChain
    /\ Returned(decrypted)
    /\ Len(encrypted_user_data) >= 2
    /\ Returned(aggregated)
    /\ Returned(results)

(***************************************************************************)
(* The computation requests of routers/computations.py over the InMemoryDB *)
(* of database.py.  The handlers are coroutines without an await, so each  *)
(* runs to its end before the next request is handled.  An id that         *)
(* uuid.uuid4() returns is the place of the entry in its dict, a fresh     *)
(* value at every creation; the "id" key that holds it is left out.        *)
(***************************************************************************)
\* current_user.id of the authenticated users
Users == {"u1", "u2"}

taskVars == <<now, analysis_status, analysis_results, background_tasks>>
coreVars == <<crypto, engineVars, analyticsVars, reductionVars, arith, extractVars, sessions, chain>>

\* raise HTTPException(status_code, detail)
HTTPException(status_code, detail) == [code |-> status_code, body |-> [detail |-> detail]]

\* a handler's return value, sent with status 200
Ok(body) == [code |-> 200, body |-> body]

\* d.update(request_data): the keys of request_data are set, the new ones added
dict_update(d, request_data) ==
    [k \in DOMAIN d \cup DOMAIN request_data |->
        IF k \in DOMAIN request_data THEN request_data[k] ELSE d[k]]

\* d.get(key, default)
dict_get(d, key, default) == IF key \in DOMAIN d THEN d[key] ELSE default

\* InMemoryDB.create_dataset
create_dataset(self, dataset_data) ==
    [self EXCEPT !.datasets = Append(@, dataset_data)]

\* InMemoryDB.update_dataset
update_dataset(self, dataset_id, dataset_data) ==
    IF dataset_id \in DOMAIN self.datasets
    THEN [self EXCEPT !.datasets[dataset_id] = dict_update(@, dataset_data)]
    ELSE self

\* InMemoryDB.create_computation_request
create_computation_request(self, request_data) ==
    [self EXCEPT !.computation_requests = Append(@, request_data)]

\* InMemoryDB.update_computation_request
update_computation_request(self, request_id, request_data) ==
    IF request_id \in DOMAIN self.computation_requests
    THEN [self EXCEPT !.computation_requests[request_id] = dict_update(@, request_data)]
    ELSE self

\* InMemoryDB.create_computation_result
create_computation_result(self, result_data) ==
    [self EXCEPT !.computation_results = Append(@, result_data)]

\* crypto_service.hash_data: SHA-256, one digest per input
hash_data(data) == <<"sha256", data>>

\* the dataset_data of routers/datasets.py create_dataset, of which the requests read
\* the owner and the price; it has no "is_available" key; the timestamps are left out
NewDataset(current_user) == [owner_id |-> current_user, price |-> "1.0"]

\* routers/datasets.py update_dataset: dataset_update is the body of the request, any
\* dict
router_update_dataset(self, dataset_id, dataset_update, current_user) ==
    IF dataset_id \notin DOMAIN self.datasets
    THEN [db |-> self, response |-> HTTPException(404, "Dataset not found")]
    ELSE IF self.datasets[dataset_id].owner_id # current_user
    THEN [db |-> self, response |-> HTTPException(403, "Not authorized to update this dataset")]
    ELSE [db |-> update_dataset(self, dataset_id, dataset_update),
          response |-> Ok(update_dataset(self, dataset_id, dataset_update).datasets[dataset_id])]

\* routers/datasets.py delete_dataset, which marks the dataset unavailable and
\* answers 204 with no body
router_delete_dataset(self, dataset_id, current_user) ==
    IF dataset_id \notin DOMAIN self.datasets
    THEN [db |-> self, response |-> HTTPException(404, "Dataset not found")]
    ELSE IF self.datasets[dataset_id].owner_id # current_user
    THEN [db |-> self, response |-> HTTPException(403, "Not authorized to delete this dataset")]
    ELSE [db |-> update_dataset(self, dataset_id, [is_available |-> FALSE]),
          response |-> [code |-> 204, body |-> EmptyDict]]

\* the request_data of request_computation, of which the handlers read the dataset,
\* the requester and the status; the timestamps are left out
NewRequest(dataset_id, current_user) ==
    [dataset_id |-> dataset_id, requester_id |-> current_user, status |-> "pending"]

\* request_computation; tx_hash is what the blockchain service returned, "none" when
\* it is not connected, the user has no wallet or the transaction failed; the answer
\* is the request as the database holds it
request_computation(self, dataset_id, current_user, tx_hash) ==
    IF dataset_id \notin DOMAIN self.datasets
    THEN [db |-> self, response |-> HTTPException(404, "Dataset not found")]
    ELSE IF ~dict_get(self.datasets[dataset_id], "is_available", TRUE)
    THEN [db |-> self, response |-> HTTPException(400, "Dataset is not available for computation")]
    ELSE IF tx_hash = "none"
    THEN [db |-> create_computation_request(self, NewRequest(dataset_id, current_user)),
          response |-> Ok(NewRequest(dataset_id, current_user))]
    ELSE [db |-> update_computation_request(create_computation_request(self, NewRequest(dataset_id, current_user)), Len(self.computation_requests) + 1, [transaction_hash |-> tx_hash, status |-> "processing"]),
          response |-> Ok(dict_update(NewRequest(dataset_id, current_user), [transaction_hash |-> tx_hash, status |-> "processing"]))]

\* what process_computation stores and returns once its three checks have passed
StoreResult(self, request_id, encrypted_result, tx_hash) ==
    [db |-> update_computation_request(update_computation_request(create_computation_result(self, [computation_id |-> request_id, encrypted_result |-> encrypted_result, result_hash |-> hash_data(encrypted_result)]), request_id, [status |-> "completed", result_hash |-> hash_data(encrypted_result)]), request_id, IF tx_hash = "none" THEN EmptyDict ELSE [result_transaction_hash |-> tx_hash]),
     response |-> Ok([computation_id |-> request_id, encrypted_result |-> encrypted_result, result_hash |-> hash_data(encrypted_result)])]

\* process_computation without the check of the request's status
process_computation_unchecked(self, request_id, encrypted_result, current_user, tx_hash) ==
    IF request_id \notin DOMAIN self.computation_requests
    THEN [db |-> self, response |-> HTTPException(404, "Computation request not found")]
    ELSE IF self.datasets[self.computation_requests[request_id].dataset_id].owner_id # current_user
    THEN [db |-> self, response |-> HTTPException(403, "Not authorized to process this computation request")]
    ELSE StoreResult(self, request_id, encrypted_result, tx_hash)

\* process_computation
process_computation(self, request_id, encrypted_result, current_user, tx_hash) ==
    IF request_id \notin DOMAIN self.computation_requests
    THEN [db |-> self, response |-> HTTPException(404, "Computation request not found")]
    ELSE IF self.datasets[self.computation_requests[request_id].dataset_id].owner_id # current_user
    THEN [db |-> self, response |-> HTTPException(403, "Not authorized to process this computation request")]
    ELSE IF self.computation_requests[request_id].status \notin {"pending", "processing"}
    THEN [db |-> self, response |-> HTTPException(400, "Computation request is in " \o self.computation_requests[request_id].status \o " state and cannot be processed")]
    ELSE StoreResult(self, request_id, encrypted_result, tx_hash)

\* the response of a handler, with the request it answers
Respond(op, user, id, res) ==
    [op |-> op, user |-> user, id |-> id, code |-> res.code, body |-> res.body]

\* what the blockchain service returns for a transaction
TxHashes == {"none", "0xtx"}

\* the encrypted_result field of the bodies posted to process_computation
EncryptedResults == {"e1"}

\* the bodies current_user puts to update_dataset: empty, availability, price, a
\* hand-over to the other user, and a hand-over that withdraws the dataset
DatasetUpdates(current_user) ==
    {EmptyDict, [is_available |-> TRUE], [is_available |-> FALSE], [price |-> "2.5"]}
        \cup {[owner_id |-> v] : v \in Users \ {current_user}}
        \cup {[owner_id |-> v, is_available |-> FALSE] : v \in Users \ {current_user}}

\* the ids the requests address: those handed out and one that never is
DatasetIds == 1 .. (MaxDatasets + 1)
RequestIds == 1 .. (MaxRequests + 1)

CreateDataset(current_user) ==
    /\ Len(db.datasets) < MaxDatasets
    /\ db' = create_dataset(db, NewDataset(current_user))
    /\ response' = Respond("create_dataset", current_user, Len(db.datasets) + 1, Ok(NewDataset(current_user)))
    /\ UNCHANGED <<coreVars, taskVars>>

UpdateDataset(dataset_id, dataset_update, current_user) ==
    /\ db' = router_update_dataset(db, dataset_id, dataset_update, current_user).db
    /\ response' = Respond("update_dataset", current_user, dataset_id, router_update_dataset(db, dataset_id, dataset_update, current_user).response)
    /\ UNCHANGED <<coreVars, taskVars>>

DeleteDataset(dataset_id, current_user) ==
    /\ db' = router_delete_dataset(db, dataset_id, current_user).db
    /\ response' = Respond("delete_dataset", current_user, dataset_id, router_delete_dataset(db, dataset_id, current_user).response)
    /\ UNCHANGED <<coreVars, taskVars>>

RequestComputation(dataset_id, current_user, tx_hash) ==
    /\ Len(db.computation_requests) < MaxRequests
    /\ db' = request_computation(db, dataset_id, current_user, tx_hash).db
    /\ response' = Respond("request_computation", current_user, Len(db'.computation_requests), request_computation(db, dataset_id, current_user, tx_hash).response)
    /\ UNCHANGED <<coreVars, taskVars>>

ProcessComputation(request_id, encrypted_result, current_user, tx_hash) ==
    /\ db' = process_computation(db, request_id, encrypted_result, current_user, tx_hash).db
    /\ response' = Respond("process_computation", current_user, request_id, process_computation(db, request_id, encrypted_result, current_user, tx_hash).response)
    /\ UNCHANGED <<coreVars, taskVars>>

NextComputations ==
    \/ \E u \in Users : CreateDataset(u)
    \/ \E d \in DatasetIds, u \in Users : \E body \in DatasetUpdates(u) : UpdateDataset(d, body, u)
    \/ \E d \in DatasetIds, u \in Users : DeleteDataset(d, u)
    \/ \E d \in DatasetIds, u \in Users, tx \in TxHashes : RequestComputation(d, u, tx)
    \/ \E r \in RequestIds, e \in EncryptedResults, u \in Users, tx \in TxHashes : ProcessComputation(r, e, u, tx)

\* the server has started; the key plays no part in the requests, so one is enough
InitServer == Init /\ crypto = PaillierCrypto(5, 7)

SpecComputations == InitServer /\ [][NextComputations]_vars

\* the places of the results stored for a request
ResultsOf(self, request_id) ==
    {i \in DOMAIN self.computation_results :
         self.computation_results[i].computation_id = request_id}

\* the order of the statuses
StatusRank(status) ==
    CASE status = "pending" -> 1
      [] status = "processing" -> 2
      [] status = "completed" -> 3
      [] OTHER -> 0

\* every request has one of the three statuses, and a result exactly when it is
\* completed, then one, whose hash the request carries
OneResultWhenCompleted ==
    \A r \in DOMAIN db.computation_requests :
        /\ StatusRank(db.computation_requests[r].status) >= 1
        /\ Cardinality(ResultsOf(db, r)) = (IF db.computation_requests[r].status = "completed" THEN 1 ELSE 0)
        /\ \A i \in ResultsOf(db, r) :
               db.computation_results[i].result_hash = db.computation_requests[r].result_hash

\* no step removes a request or moves its status back
StatusForward ==
    \A r \in DOMAIN db.computation_requests :
        /\ r \in DOMAIN db'.computation_requests
        /\ StatusRank(db'.computation_requests[r].status)
               >= StatusRank(db.computation_requests[r].status)

\* a step stores a result for a request only as the answer 200 to a process_computation
\* of the dataset's owner on that request, which was pending or processing and is
\* completed now; and an answer 200 to process_computation has stored a result
ProcessGuarded ==
    /\ \A r \in DOMAIN db'.computation_requests :
           ResultsOf(db', r) # ResultsOf(db, r) =>
               /\ r \in DOMAIN db.computation_requests
               /\ db.computation_requests[r].status \in {"pending", "processing"}
               /\ db'.computation_requests[r].status = "completed"
               /\ response'.op = "process_computation"
               /\ response'.id = r
               /\ response'.code = 200
               /\ response'.user = db.datasets[db.computation_requests[r].dataset_id].owner_id
    /\ (response'.op = "process_computation" /\ response'.code = 200) =>
           ResultsOf(db', response'.id) # ResultsOf(db, response'.id)

\* a process_computation on a request that is completed is rejected and changes nothing
CompletedIsFinal ==
    \A r \in DOMAIN db.computation_requests :
        (/\ db.computation_requests[r].status = "completed"
         /\ response'.op = "process_computation"
         /\ response'.id = r) =>
            /\ response'.code \in {400, 403}
            /\ db' = db

\* C30: a request's status only moves forward, from pending or processing to
\* completed; process_computation succeeds only for the owner of the dataset on a
\* request that is pending or processing; on a completed request it is rejected
\* and stores nothing, so a request never has more than one result
ComputationLifecycle ==
    /\ []OneResultWhenCompleted
    /\ [][StatusForward /\ ProcessGuarded /\ CompletedIsFinal]_vars

\* a request that went through processing was completed with one result, and its
\* owner's next process_computation on it has been answered 400
ComputationLifecycleWitness ==
    /\ response.op = "process_computation"
    /\ response.code = 400
    /\ response.id \in DOMAIN db.computation_requests
    /\ db.computation_requests[response.id].status = "completed"
    /\ "transaction_hash" \in DOMAIN db.computation_requests[response.id]
    /\ Cardinality(ResultsOf(db, response.id)) = 1

(***************************************************************************)
(* The background tasks of routers/analytics.py.  A request is handled in  *)
(* one piece (the handlers are coroutines without an await); the task it   *)
(* adds runs afterwards in the thread pool, next to the other tasks and    *)
(* the later requests, which see each of its writes as it is made.  A      *)
(* task is at the line of its next statement, 0 once it has returned.      *)
(***************************************************************************)
dbVars == <<db>>

\* f"analysis_{int(time.time())}", f"dataset_gen_{int(time.time())}"
TaskId(prefix, seconds) == prefix \o "_" \o ToString(seconds)

\* d[key] = value
dict_set(d, key, value) == [k \in DOMAIN d \cup {key} |-> IF k = key THEN value ELSE d[k]]

\* the entry a request stores in analysis_status
NewEntry(message, user_id) ==
    [status |-> "running", message |-> message, progress |-> 0, user_id |-> user_id]

\* the task a request hands to background_tasks.add_task: the function, the task_id
\* and sample_size its closure holds, the line it is at, the exception it has caught,
\* and (ghost) the request's user
NewTask(fn, task_id, sample_size, current_user) ==
    [fn |-> fn, task_id |-> task_id, sample_size |-> sample_size,
     pc |-> IF fn = "run_analysis_task" THEN 102 ELSE 50, e |-> "none",
     user |-> current_user]

\* what computation.run_full_analysis(sample_size=sample_size) returns, as far as it
\* tells the runs apart: "dataset_info": {"sampled_users": sample_size}
AnalysisResults(sample_size) == [sampled_users |-> sample_size]

\* the dict generate_dataset_task stores as "result", for the default num_users and
\* events_per_user
DatasetResult ==
    [dataset_path |-> "browser_history_test_dataset.json", num_users |-> 100,
     total_events |-> 100 * 1000, date_range |-> "date_range"]

\* the sample_size arguments of run_analysis
RequestedSampleSizes == {1, 2}

\* str(e) of the exceptions the work of a task raises
TaskErrors == {"error"}

\* the task ids a client asks for: those handed out so far and one that never is
TaskIds == DOMAIN analysis_status \cup {TaskId("analysis", MaxClock + 1)}

\* the assignment analysis_status[task_id][key] = value at line pc of the task, and
\* the line of the statement after it
StatusWrite(task) ==
    CASE task.pc = 50 -> [key |-> "message", value |-> "Starting dataset generation...", next |-> 51]
      [] task.pc = 51 -> [key |-> "progress", value |-> 10, next |-> 53]
      [] task.pc = 58 -> [key |-> "status", value |-> "completed", next |-> 59]
      [] task.pc = 59 -> [key |-> "message", value |-> "Dataset generation completed", next |-> 60]
      [] task.pc = 60 -> [key |-> "progress", value |-> 100, next |-> 61]
      [] task.pc = 61 -> [key |-> "result", value |-> DatasetResult, next |-> 0]
      [] task.pc = 68 -> [key |-> "status", value |-> "failed", next |-> 69]
      [] task.pc = 69 -> [key |-> "message", value |-> "Dataset generation failed: " \o task.e, next |-> 70]
      [] task.pc = 70 -> [key |-> "progress", value |-> 0, next |-> 0]
      [] task.pc = 102 -> [key |-> "message", value |-> "Initializing privacy-preserving computation...", next |-> 103]
      [] task.pc = 103 -> [key |-> "progress", value |-> 10, next |-> 107]
      [] task.pc = 108 -> [key |-> "message", value |-> "Dataset not found, generating a small test dataset...", next |-> 109]
      [] task.pc = 109 -> [key |-> "progress", value |-> 20, next |-> 110]
      [] task.pc = 112 -> [key |-> "message", value |-> "Running privacy-preserving analysis...", next |-> 113]
      [] task.pc = 113 -> [key |-> "progress", value |-> 30, next |-> 115]
      [] task.pc = 118 -> [key |-> "message", value |-> "Generating visualizations...", next |-> 119]
      [] task.pc = 119 -> [key |-> "progress", value |-> 70, next |-> 121]
      [] task.pc = 126 -> [key |-> "status", value |-> "completed", next |-> 127]
      [] task.pc = 127 -> [key |-> "message", value |-> "Analysis completed successfully", next |-> 128]
      [] task.pc = 128 -> [key |-> "progress", value |-> 100, next |-> 129]
      [] task.pc = 129 -> [key |-> "visualization_files", value |-> "visualization_files", next |-> 0]
      [] task.pc = 131 -> [key |-> "status", value |-> "failed", next |-> 132]
      [] task.pc = 132 -> [key |-> "message", value |-> "Analysis failed: " \o task.e, next |-> 133]
      [] task.pc = 133 -> [key |-> "progress", value |-> 0, next |-> 0]

\* the lines that assign to a key of the task's entry
StatusWriteLines ==
    {50, 51, 58, 59, 60, 61, 68, 69, 70,
     102, 103, 108, 109, 112, 113, 118, 119, 126, 127, 128, 129, 131, 132, 133}

\* the lines at which the work of a task is called, with the line after the call and
\* the first line of the except block: generate_small_test_dataset,
\* run_full_analysis, create_visualizations
WorkCall(task) ==
    CASE task.pc = 53 -> [next |-> 58, except |-> 68]
      [] task.pc = 110 -> [next |-> 112, except |-> 131]
      [] task.pc = 115 -> [next |-> 118, except |-> 131]
      [] task.pc = 121 -> [next |-> 124, except |-> 131]

WorkCallLines == {53, 110, 115, 121}

\* a second passes
Tick ==
    /\ now < MaxClock
    /\ now' = now + 1
    /\ response' = NoResponse
    /\ UNCHANGED <<coreVars, dbVars, analysis_status, analysis_results, background_tasks>>

\* generate_dataset with the default num_users and events_per_user
GenerateDataset(current_user) ==
    /\ Len(background_tasks) < MaxTasks
    /\ analysis_status' = dict_set(analysis_status, TaskId("dataset_gen", now), NewEntry("Generating dataset with 100 users and 1000 events per user", current_user))
    /\ background_tasks' = Append(background_tasks, NewTask("generate_dataset_task", TaskId("dataset_gen", now), 0, current_user))
    /\ response' = Respond("generate_dataset", current_user, TaskId("dataset_gen", now), Ok([task_id |-> TaskId("dataset_gen", now), status |-> "running", message |-> "Dataset generation started for 100 users"]))
    /\ UNCHANGED <<coreVars, dbVars, now, analysis_results>>

RunAnalysis(sample_size, current_user) ==
    /\ Len(background_tasks) < MaxTasks
    /\ analysis_status' = dict_set(analysis_status, TaskId("analysis", now), NewEntry("Starting analysis with sample size " \o ToString(sample_size), current_user))
    /\ background_tasks' = Append(background_tasks, NewTask("run_analysis_task", TaskId("analysis", now), sample_size, current_user))
    /\ response' = Respond("run_analysis", current_user, TaskId("analysis", now), Ok([task_id |-> TaskId("analysis", now), status |-> "running", message |-> "Analysis started with sample size " \o ToString(sample_size)]))
    /\ UNCHANGED <<coreVars, dbVars, now, analysis_results>>

\* a task makes its next assignment to its entry of analysis_status
TaskWrite(i) ==
    /\ background_tasks[i].pc \in StatusWriteLines
    /\ analysis_status' = [analysis_status EXCEPT ![background_tasks[i].task_id] =
           dict_set(@, StatusWrite(background_tasks[i]).key, StatusWrite(background_tasks[i]).value)]
    /\ background_tasks' = [background_tasks EXCEPT ![i].pc = StatusWrite(background_tasks[i]).next]
    /\ response' = NoResponse
    /\ UNCHANGED <<coreVars, dbVars, now, analysis_results>>

\* run_analysis_task line 107: exists is what os.path.exists answers for the dataset
\* file
TaskFindDataset(i, exists) ==
    /\ background_tasks[i].pc = 107
    /\ background_tasks' = [background_tasks EXCEPT ![i].pc = IF exists THEN 112 ELSE 108]
    /\ response' = NoResponse
    /\ UNCHANGED <<coreVars, dbVars, now, analysis_status, analysis_results>>

\* the work a task calls returns
TaskWork(i) ==
    /\ background_tasks[i].pc \in WorkCallLines
    /\ background_tasks' = [background_tasks EXCEPT ![i].pc = WorkCall(background_tasks[i]).next]
    /\ response' = NoResponse
    /\ UNCHANGED <<coreVars, dbVars, now, analysis_status, analysis_results>>

\* the work a task calls raises e, which the except clause catches
TaskRaise(i, e) ==
    /\ background_tasks[i].pc \in WorkCallLines
    /\ background_tasks' = [background_tasks EXCEPT ![i].pc = WorkCall(background_tasks[i]).except,
                                                    ![i].e = e]
    /\ response' = NoResponse
    /\ UNCHANGED <<coreVars, dbVars, now, analysis_status, analysis_results>>

\* run_analysis_task line 124: analysis_results[task_id] = results
TaskStoreResults(i) ==
    /\ background_tasks[i].pc = 124
    /\ analysis_results' = dict_set(analysis_results, background_tasks[i].task_id, AnalysisResults(background_tasks[i].sample_size))
    /\ background_tasks' = [background_tasks EXCEPT ![i].pc = 126]
    /\ response' = NoResponse
    /\ UNCHANGED <<coreVars, dbVars, now, analysis_status>>

\* get_task_status
get_task_status(task_id, current_user) ==
    IF task_id \notin DOMAIN analysis_status
    THEN HTTPException(404, "Task not found")
    ELSE IF analysis_status[task_id].user_id # current_user
    THEN HTTPException(403, "Not authorized to view this task")
    ELSE Ok(analysis_status[task_id])

\* get_analysis_results
get_analysis_results(task_id, current_user) ==
    IF task_id \notin DOMAIN analysis_status
    THEN HTTPException(404, "Task not found")
    ELSE IF analysis_status[task_id].user_id # current_user
    THEN HTTPException(403, "Not authorized to view these results")
    ELSE IF analysis_status[task_id].status # "completed"
    THEN HTTPException(400, "Analysis is not yet completed")
    ELSE IF task_id \in DOMAIN analysis_results
    THEN Ok(analysis_results[task_id])
    ELSE HTTPException(404, "Results not found")

GetTaskStatus(task_id, current_user) ==
    /\ response' = Respond("get_task_status", current_user, task_id, get_task_status(task_id, current_user))
    /\ UNCHANGED <<coreVars, dbVars, taskVars>>

GetAnalysisResults(task_id, current_user) ==
    /\ response' = Respond("get_analysis_results", current_user, task_id, get_analysis_results(task_id, current_user))
    /\ UNCHANGED <<coreVars, dbVars, taskVars>>

NextTasks ==
    \/ Tick
    \/ \E u \in Users : GenerateDataset(u)
    \/ \E sample_size \in RequestedSampleSizes, u \in Users : RunAnalysis(sample_size, u)
    \/ \E i \in DOMAIN background_tasks : TaskWrite(i)
    \/ \E i \in DOMAIN background_tasks, exists \in BOOLEAN : TaskFindDataset(i, exists)
    \/ \E i \in DOMAIN background_tasks : TaskWork(i)
    \/ \E i \in DOMAIN background_tasks, e \in TaskErrors : TaskRaise(i, e)
    \/ \E i \in DOMAIN background_tasks : TaskStoreResults(i)
    \/ \E task_id \in TaskIds, u \in Users : GetTaskStatus(task_id, u)
    \/ \E task_id \in TaskIds, u \in Users : GetAnalysisResults(task_id, u)

SpecTasks == InitServer /\ [][NextTasks]_vars

\* the requests whose background task works on the entry task_id
StartedBy(task_id) == {i \in DOMAIN background_tasks : background_tasks[i].task_id = task_id}

\* no two requests were given the same task entry
OwnEntry ==
    \A i, j \in DOMAIN background_tasks :
        i # j => background_tasks[i].task_id # background_tasks[j].task_id

\* the last answer, if it is a status or the results of a task, went to the user of
\* every request whose task writes that entry, and results are those of such a task
ReadsOwnTask ==
    (response.op \in {"get_task_status", "get_analysis_results"} /\ response.code = 200) =>
        /\ \A i \in StartedBy(response.id) : background_tasks[i].user = response.user
        /\ response.op = "get_analysis_results" =>
               \E i \in StartedBy(response.id) :
                   /\ background_tasks[i].user = response.user
                   /\ response.body = AnalysisResults(background_tasks[i].sample_size)

\* C29: under every interleaving of run-analysis and generate-dataset requests of
\* different users and of their background tasks, each request has a task entry of
\* its own that no other request overwrites, and get_task_status and
\* get_analysis_results return a task's status and results only to the user whose
\* request started the task
TaskIsolation == OwnEntry /\ ReadsOwnTask
====
